---- MODULE Spec2Model ----
(***************************************************************************)
(* A model of the analytical core of SOC_Analyst_Workbench:                *)
(*   - app/ingest.py   : run_ingest_job, normalize_zscaler, _parse_dt      *)
(*   - app/features.py : compute_features, build_minute_rollup             *)
(*   - app/detect.py   : run_detections, _calc_confidence and helpers      *)
(* The database is modelled by its committed tables (what any other        *)
(* connection reads under PostgreSQL's READ COMMITTED) plus the pending     *)
(* writes of the one open transaction of build_minute_rollup.              *)
(*                                                                         *)
(* Three specifications share the variables:                               *)
(*   Spec       the ingestion pipeline of one upload (storage faults       *)
(*              included) and direct re-invocations of the rollup builder  *)
(*   SpecConf   _calc_confidence applied to bounded inputs                 *)
(*   SpecDetect run_detections applied to bounded rollup tables            *)
(***************************************************************************)
EXTENDS Integers, Sequences, FiniteSets, Bags, TLC

VARIABLES
  \* ---- database, committed state
  events,        \* table events: sequence of rows in insertion order
  rollup,        \* table event_rollup_minute: bag of rows
  features,      \* table upload_features: upload_id -> stats row or NULL
  findings,      \* table findings: sequence of rows in insertion order
  job,           \* the ingest_jobs row of the current job
  \* ---- run_ingest_job(job_id, upload_id, file_path, batch_size)
  file,          \* the input file: sequence of lines
  batch_size,    \* the batch_size argument
  pc,            \* position of run_ingest_job
  lineno,        \* index of the next line of the file
  batch,         \* local list batch
  inserted,      \* local counter inserted
  flushes,       \* sizes of the batches the current run has committed, in order
  bad_lines,     \* local counter bad_lines
  calls,         \* downstream functions invoked by the current run, in order
  reachedDone,   \* the current run has written status "done"
  runs,          \* number of ingest jobs started for the upload
  faults,        \* number of storage/IO faults injected so far
  \* ---- build_minute_rollup(upload_id)
  rb,            \* position, caller and open transaction of the rollup builder
  lastRb,        \* the last committed rebuild (NONE before the first)
  prevRb,        \* the committed rebuild before lastRb (NONE if none)
  \* ---- _calc_confidence(pattern_name, severity, evidence)
  cIn,           \* the arguments
  cOut,          \* the value returned (NONE before the call)
  cPrev,         \* arguments and value of the previous call (NONE if none)
  \* ---- run_detections(upload_id)
  det,           \* position, pending query rows and created ids of the run
  \* ---- compute_features(upload_id), invoked by concurrent callers
  cf,            \* per caller: position and stats read; row lock; completions
  \* ---- build_minute_rollup(upload_id), invoked by concurrent builders
  rbc            \* per builder: position, rows seen, pending delete and insert

vars == <<events, rollup, features, findings, job, file, batch_size, pc, lineno,
          batch, inserted, bad_lines, calls, reachedDone, runs, faults,
          rb, lastRb, prevRb, cIn, cOut, cPrev, det, cf, rbc, flushes>>

dbVars     == <<events, rollup, features, findings, job>>
ingestVars == <<file, batch_size, pc, lineno, batch, inserted, bad_lines,
                calls, reachedDone, runs, faults>>
rbVars     == <<rb, lastRb, prevRb>>
confVars   == <<cIn, cOut, cPrev>>

(***************************************************************************)
(* Bounds of the model.                                                    *)
(***************************************************************************)
MaxLines     == 2   \* longest input file, in lines
MaxBatchSize == 2   \* largest batch_size argument tried
MaxRuns      == 1   \* ingest jobs started for the upload
MaxFaults    == 2   \* storage/IO faults injected in one behaviour
MaxDetectRuns == 2  \* invocations of run_detections for the upload

(***************************************************************************)
(* Values.                                                                 *)
(***************************************************************************)
NULL   == "NULL"      \* SQL NULL / Python None
NONE   == "NONE"      \* "no value yet" of a history variable
ABSENT == "ABSENT"    \* a key that a dict does not hold

UploadA == "upload-A" \* the upload the modelled calls are for
UploadB == "upload-B" \* another upload whose rows are already stored

Max(a, b) == IF a >= b THEN a ELSE b
Min(a, b) == IF a <= b THEN a ELSE b

(***************************************************************************)
(* Input lines.  A line is what json.loads sees: the JSON kind of the      *)
(* text, and for an object the kind of its "event" member and the members  *)
(* of that dict which the rollup groups by.                                *)
(***************************************************************************)
MkLine(j, ev, dt, u, ip, h, a, c) ==
  [json |-> j, event |-> ev, datetime |-> dt, user |-> u, ClientIP |-> ip,
   hostname |-> h, action |-> a, threatcategory |-> c]

LineBlank   == MkLine("blank",   ABSENT, ABSENT, ABSENT, ABSENT, ABSENT, ABSENT, ABSENT)
LineInvalid == MkLine("invalid", ABSENT, ABSENT, ABSENT, ABSENT, ABSENT, ABSENT, ABSENT)
LineArray   == MkLine("array",   ABSENT, ABSENT, ABSENT, ABSENT, ABSENT, ABSENT, ABSENT)
LineBadTs   == MkLine("object", "dict", "not-a-date", "u1", "10.0.0.5", "h1", "Blocked", "Malware")
LineNoTs    == MkLine("object", "dict", ABSENT, "u1", "10.0.0.5", "h1", "Blocked", "Malware")
LineOk1     == MkLine("object", "dict", "2024-01-01 00:00:05", "u1", "10.0.0.5", "h1", "Blocked", "Malware")
LineOk2     == MkLine("object", "dict", "2024-01-01 00:01:05", "u1", "10.0.0.5", "h1", "Blocked", "Malware")

LineUniverse == {LineBlank, LineInvalid, LineArray, LineBadTs, LineNoTs,
                 LineOk1, LineOk2}

(***************************************************************************)
(* A nullable timestamp is <<>> (NULL) or <<t>>, t in seconds.             *)
(***************************************************************************)
NullTime == <<>>
At(t)    == <<t>>

\* datetime.strptime(s, DT_FMT), as seconds after 2024-01-01 00:00:00 UTC
StrptimeOk(s) == s \in {"2024-01-01 00:00:05", "2024-01-01 00:01:05"}
Strptime(s) == CASE s = "2024-01-01 00:00:05" -> 5
                 [] s = "2024-01-01 00:01:05" -> 65

\* _parse_dt: "if not s: return None", else strptime, which raises ValueError
\* on a string that is not in DT_FMT.
ParseDtRaises(s) == ~(s \in {ABSENT, NULL, ""}) /\ ~StrptimeOk(s)
ParseDt(s) == IF s \in {ABSENT, NULL, ""} THEN NullTime ELSE At(Strptime(s))

\* dict.get(k): None for a missing key
Get(v) == IF v = ABSENT THEN NULL ELSE v

\* json.loads(line) raises on text that is not JSON
JsonLoadsRaises(line) == line.json = "invalid"

\* normalize_zscaler(obj): ev = obj.get("event", {}) if isinstance(obj, dict)
\* else {}; ev.get raises AttributeError when ev is not a dict.
EvOf(obj) == IF obj.json = "object" /\ obj.event # ABSENT THEN obj.event ELSE "empty"

NormalizeRaises(obj) ==
  \/ EvOf(obj) = "scalar"
  \/ EvOf(obj) = "dict" /\ ParseDtRaises(obj.datetime)

NormalizeZscaler(obj) ==
  IF EvOf(obj) = "dict"
  THEN [event_time      |-> ParseDt(obj.datetime),
        user_email      |-> Get(obj.user),
        client_ip       |-> Get(obj.ClientIP),
        dest_host       |-> Get(obj.hostname),
        action          |-> Get(obj.action),
        threat_category |-> Get(obj.threatcategory),
        raw             |-> obj]
  ELSE [event_time      |-> NullTime,
        user_email      |-> NULL,
        client_ip       |-> NULL,
        dest_host       |-> NULL,
        action          |-> NULL,
        threat_category |-> NULL,
        raw             |-> obj]

\* the try block of the line loop: json.loads, normalize_zscaler, then
\* row["upload_id"] = upload_id
LineRaises(line) == JsonLoadsRaises(line) \/ NormalizeRaises(line)
RowOf(line, u) ==
  LET r == NormalizeZscaler(line)
  IN  [upload_id |-> u, event_time |-> r.event_time, user_email |-> r.user_email,
       client_ip |-> r.client_ip, dest_host |-> r.dest_host, action |-> r.action,
       threat_category |-> r.threat_category, raw |-> r.raw]

(***************************************************************************)
(* Rollup aggregation (the insert ... select of build_minute_rollup).      *)
(***************************************************************************)
DateTruncMinute(t) == (t \div 60) * 60

\* date_trunc('minute', event_time): NULL for a NULL timestamp
BucketOf(t) == IF t = NullTime THEN NullTime ELSE At(DateTruncMinute(t[1]))

RollupKey(e) ==
  [upload_id |-> e.upload_id, bucket |-> BucketOf(e.event_time),
   user_email |-> e.user_email, client_ip |-> e.client_ip,
   dest_host |-> e.dest_host, action |-> e.action,
   threat_category |-> e.threat_category]

\* the where clause without "and event_time is not null"
AggregateSourceAnyTime(evs, u) ==
  {i \in DOMAIN evs : evs[i].upload_id = u}

\* where upload_id=%s and event_time is not null
AggregateSource(evs, u) ==
  {i \in DOMAIN evs : evs[i].upload_id = u /\ evs[i].event_time # NullTime}

MkRollupRow(k, n) ==
  [upload_id |-> k.upload_id, bucket |-> k.bucket, user_email |-> k.user_email,
   client_ip |-> k.client_ip, dest_host |-> k.dest_host, action |-> k.action,
   threat_category |-> k.threat_category, total |-> n]

\* group by ... count(*): one row per distinct grouping tuple
Aggregate(evs, u) ==
  LET src == AggregateSource(evs, u)
  IN  {MkRollupRow(k, Cardinality({i \in src : RollupKey(evs[i]) = k})) :
         k \in {RollupKey(evs[i]) : i \in src}}

\* sum(total) over the rows S of the table b (a bag: a row held twice counts
\* twice)
RECURSIVE SumTotals(_, _)
SumTotals(S, b) ==
  IF S = {} THEN 0
  ELSE LET r == CHOOSE x \in S : TRUE
       IN  r.total * b[r] + SumTotals(S \ {r}, b)

\* delete from event_rollup_minute where upload_id=%s: the rows it removes
RowsOfUpload(table, u) ==
  [r \in {x \in BagToSet(table) : x.upload_id = u} |-> table[r]]


(***************************************************************************)
(* Case-insensitive matching (SQL ILIKE) on the strings the model uses.    *)
(***************************************************************************)
Lower(s) == CASE s \in {"Blocked", "BLOCKED", "blocked"} -> "blocked"
              [] s \in {"Allowed", "ALLOWED", "allowed"} -> "allowed"
              [] OTHER -> s

\* x ilike 'pattern' for a pattern without wildcards; NULL matches nothing
ILike(x, pattern) == x # NULL /\ Lower(x) = Lower(pattern)

(***************************************************************************)
(* compute_features: the stats document of an upload.                      *)
(***************************************************************************)
\* count(*) ... where upload_id = %s
CountEvents(evs, u) ==
  Cardinality({i \in DOMAIN evs : evs[i].upload_id = u})

\* sum(case when action ilike a then 1 else 0 end)
CountAction(evs, u, a) ==
  Cardinality({i \in DOMAIN evs : evs[i].upload_id = u /\ ILike(evs[i].action, a)})

\* the non-null event_time values of an upload (min and max skip NULLs)
TimesOf(evs, u) ==
  {evs[i].event_time[1] :
     i \in {j \in DOMAIN evs : evs[j].upload_id = u /\ evs[j].event_time # NullTime}}

MinTime(T) == IF T = {} THEN NullTime ELSE At(CHOOSE t \in T : \A x \in T : t <= x)
MaxTime(T) == IF T = {} THEN NullTime ELSE At(CHOOSE t \in T : \A x \in T : t >= x)

NoStats == [present |-> FALSE, total_events |-> 0, start |-> NullTime,
            end |-> NullTime, blocked |-> 0, allowed |-> 0]

Stats(evs, u) ==
  [present      |-> TRUE,
   total_events |-> CountEvents(evs, u),
   start        |-> MinTime(TimesOf(evs, u)),
   end          |-> MaxTime(TimesOf(evs, u)),
   blocked      |-> CountAction(evs, u, "Blocked"),
   allowed      |-> CountAction(evs, u, "Allowed")]

(***************************************************************************)
(* Initial database: upload-B was ingested earlier; upload-A has a stored  *)
(* file and nothing else.                                                  *)
(***************************************************************************)
EventB == RowOf(LineOk1, UploadB)
InitEvents   == <<EventB>>
InitRollup   == SetToBag(Aggregate(InitEvents, UploadB))
\* upload_features: a sequence of rows (upload_id, stats)
InitFeatures == <<[upload_id |-> UploadB, stats |-> Stats(InitEvents, UploadB)]>>

\* a plain insert, with no "on conflict" clause and no unique key
UpsertAppending(table, u, st) == Append(table, [upload_id |-> u, stats |-> st])

\* features.py lines 108-117: insert ... on conflict (upload_id) do update
\* set stats = excluded.stats
Upsert(table, u, st) ==
  IF \E i \in DOMAIN table : table[i].upload_id = u
  THEN [i \in DOMAIN table |->
          IF table[i].upload_id = u THEN [table[i] EXCEPT !.stats = st]
          ELSE table[i]]
  ELSE Append(table, [upload_id |-> u, stats |-> st])

Callers == {"c1", "c2"}
Builders == {"b1", "b2"}
CfIdle == [proc |-> [c \in Callers |-> [pc |-> "idle", stats |-> NoStats]],
           lock |-> "free", completed |-> <<>>, calls |-> 0, appended |-> 0]

\* no build_minute_rollup invocation is under way
RbcIdle == [proc |-> [b \in Builders |->
                      [pc |-> "idle", seen |-> EmptyBag, del |-> EmptyBag,
                       ins |-> EmptyBag]],
            calls |-> 0, commits |-> 0, overlapped |-> FALSE]

NoJob == [status |-> "none", inserted_events |-> 0, bad_lines |-> 0, error |-> NULL]
MkJob(st, ins, bad, err) ==
  [status |-> st, inserted_events |-> ins, bad_lines |-> bad, error |-> err]

RbIdle == [pc |-> "idle", caller |-> "none", del |-> EmptyBag, ins |-> EmptyBag,
           pre |-> EmptyBag, snap |-> <<>>, ret |-> 0]
NoRb   == [valid |-> FALSE, snap |-> <<>>, rows |-> EmptyBag, ret |-> 0]

ConfIdle == [pattern |-> "none", severity |-> "none", evidence |-> <<>>]
NoConf   == [done |-> FALSE, conf |-> 0]
NoPrev   == [valid |-> FALSE, pattern |-> "none", severity |-> "none",
             evidence |-> <<>>, field |-> "none", conf |-> 0]
DetIdle  == [pc |-> "idle", pending |-> <<>>, extra |-> <<>>, created |-> <<>>,
             runs |-> 0]

Files == UNION {[1..n -> LineUniverse] : n \in 0..MaxLines}

Init ==
  /\ events = InitEvents
  /\ rollup = InitRollup
  /\ features = InitFeatures
  /\ findings = <<>>
  /\ job = NoJob
  /\ file \in Files
  /\ batch_size \in 1..MaxBatchSize
  /\ pc = "idle"
  /\ lineno = 1
  /\ batch = <<>>
  /\ inserted = 0
  /\ bad_lines = 0
  /\ calls = <<>>
  /\ reachedDone = FALSE
  /\ runs = 0
  /\ faults = 0
  /\ rb = RbIdle
  /\ lastRb = NoRb
  /\ prevRb = NoRb
  /\ cIn = ConfIdle
  /\ cOut = NoConf
  /\ cPrev = NoPrev
  /\ det = DetIdle
  /\ cf = CfIdle
  /\ rbc = RbcIdle
  /\ flushes = <<>>

(***************************************************************************)
(* run_ingest_job                                                          *)
(***************************************************************************)
\* start_ingest / upload: insert the ingest_jobs row with status "queued"
\* and schedule run_ingest_job as a background task
StartIngest ==
  /\ pc \in {"idle", "returned", "raised"}
  /\ rb.pc = "idle"
  /\ runs < MaxRuns
  /\ runs' = runs + 1
  /\ job' = MkJob("queued", 0, 0, NULL)
  /\ pc' = "queued"
  /\ lineno' = 1
  /\ batch' = <<>>
  /\ inserted' = 0
  /\ flushes' = <<>>
  /\ bad_lines' = 0
  /\ calls' = <<>>
  /\ reachedDone' = FALSE
  /\ UNCHANGED <<events, rollup, features, findings, file, batch_size, faults>>
  /\ UNCHANGED <<rbVars, confVars, det, cf, rbc>>

\* line 48: _set_ingest_job(job_id, "running", inserted, bad_lines)
SetRunningFirst ==
  /\ pc = "queued"
  /\ job' = MkJob("running", inserted, bad_lines, NULL)
  /\ pc' = "open"
  /\ UNCHANGED <<events, rollup, features, findings>>
  /\ UNCHANGED <<file, batch_size, lineno, batch, inserted, bad_lines, calls,
                 reachedDone, runs, faults>>
  /\ UNCHANGED <<rbVars, confVars, det, cf, rbc, flushes>>

\* lines 50-52: connect_db(), conn.cursor(), open(file_path)
OpenFile ==
  /\ pc = "open"
  /\ pc' = "loop"
  /\ UNCHANGED dbVars
  /\ UNCHANGED <<file, batch_size, lineno, batch, inserted, bad_lines, calls,
                 reachedDone, runs, faults>>
  /\ UNCHANGED <<rbVars, confVars, det, cf, rbc, flushes>>

\* lines 53-67: one iteration of "for line in f" up to the batch-size test
ReadLine ==
  /\ pc = "loop"
  /\ lineno <= Len(file)
  /\ lineno' = lineno + 1
  /\ LET line == file[lineno] IN
       IF line.json = "blank"
       THEN /\ UNCHANGED <<batch, bad_lines>>
            /\ pc' = "loop"
       ELSE IF LineRaises(line)
       THEN /\ bad_lines' = bad_lines + 1
            /\ UNCHANGED batch
            /\ pc' = "loop"
       ELSE /\ batch' = Append(batch, RowOf(line, UploadA))
            /\ UNCHANGED bad_lines
            /\ pc' = IF Len(batch') >= batch_size THEN "flush" ELSE "loop"
  /\ UNCHANGED dbVars
  /\ UNCHANGED <<file, batch_size, inserted, calls, reachedDone, runs, faults>>
  /\ UNCHANGED <<rbVars, confVars, det, cf, rbc, flushes>>

\* lines 68-71: executemany, commit, inserted += len(batch), batch.clear()
FlushBatch ==
  /\ pc = "flush"
  /\ events' = events \o batch
  /\ inserted' = inserted + Len(batch)
  /\ flushes' = Append(flushes, Len(batch))
  /\ batch' = <<>>
  /\ pc' = "set_running"
  /\ UNCHANGED <<rollup, features, findings, job>>
  /\ UNCHANGED <<file, batch_size, lineno, bad_lines, calls, reachedDone, runs, faults>>
  /\ UNCHANGED <<rbVars, confVars, det, cf, rbc>>

\* line 72: _set_ingest_job(job_id, "running", inserted, bad_lines)
SetRunning ==
  /\ pc = "set_running"
  /\ job' = MkJob("running", inserted, bad_lines, NULL)
  /\ pc' = "loop"
  /\ UNCHANGED <<events, rollup, features, findings>>
  /\ UNCHANGED <<file, batch_size, lineno, batch, inserted, bad_lines, calls,
                 reachedDone, runs, faults>>
  /\ UNCHANGED <<rbVars, confVars, det, cf, rbc, flushes>>

\* line 74: end of input, "if batch:"
EndOfInput ==
  /\ pc = "loop"
  /\ lineno > Len(file)
  /\ pc' = IF batch # <<>> THEN "final_flush" ELSE "set_done"
  /\ UNCHANGED dbVars
  /\ UNCHANGED <<file, batch_size, lineno, batch, inserted, bad_lines, calls,
                 reachedDone, runs, faults>>
  /\ UNCHANGED <<rbVars, confVars, det, cf, rbc, flushes>>

\* lines 75-78: the final partial batch
FinalFlush ==
  /\ pc = "final_flush"
  /\ events' = events \o batch
  /\ inserted' = inserted + Len(batch)
  /\ flushes' = Append(flushes, Len(batch))
  /\ batch' = <<>>
  /\ pc' = "set_done"
  /\ UNCHANGED <<rollup, features, findings, job>>
  /\ UNCHANGED <<file, batch_size, lineno, bad_lines, calls, reachedDone, runs, faults>>
  /\ UNCHANGED <<rbVars, confVars, det, cf, rbc>>

\* line 80: _set_ingest_job(job_id, "done", inserted, bad_lines)
SetDone ==
  /\ pc = "set_done"
  /\ job' = MkJob("done", inserted, bad_lines, NULL)
  /\ reachedDone' = TRUE
  /\ pc' = "features"
  /\ UNCHANGED <<events, rollup, features, findings>>
  /\ UNCHANGED <<file, batch_size, lineno, batch, inserted, bad_lines, calls,
                 runs, faults>>
  /\ UNCHANGED <<rbVars, confVars, det, cf, rbc, flushes>>

\* line 81: compute_features(upload_id), which upserts upload_features
ComputeFeatures ==
  /\ pc = "features"
  /\ calls' = Append(calls, "compute_features")
  /\ features' = Upsert(features, UploadA, Stats(events, UploadA))
  /\ pc' = "rollup"
  /\ UNCHANGED <<events, rollup, findings, job>>
  /\ UNCHANGED <<file, batch_size, lineno, batch, inserted, bad_lines,
                 reachedDone, runs, faults>>
  /\ UNCHANGED <<rbVars, confVars, det, cf, rbc, flushes>>

\* line 81 when compute_features raises (a storage failure in it)
ComputeFeaturesFault ==
  /\ pc = "features"
  /\ faults < MaxFaults
  /\ faults' = faults + 1
  /\ calls' = Append(calls, "compute_features")
  /\ pc' = "except"
  /\ UNCHANGED dbVars
  /\ UNCHANGED <<file, batch_size, lineno, batch, inserted, bad_lines,
                 reachedDone, runs>>
  /\ UNCHANGED <<rbVars, confVars, det, cf, rbc, flushes>>

\* line 82: build_minute_rollup(upload_id) is entered
CallRollup ==
  /\ pc = "rollup"
  /\ rb.pc = "idle"
  /\ calls' = Append(calls, "build_minute_rollup")
  /\ rb' = [RbIdle EXCEPT !.pc = "delete", !.caller = "job"]
  /\ pc' = "rollup_wait"
  /\ UNCHANGED dbVars
  /\ UNCHANGED <<file, batch_size, lineno, batch, inserted, bad_lines,
                 reachedDone, runs, faults>>
  /\ UNCHANGED <<lastRb, prevRb, confVars, det, cf, rbc, flushes>>

\* a failing flush whose rows stay in events (as if every statement committed
\* on its own)
IngestFaultKeepsRows ==
  /\ pc \in {"queued", "open", "flush", "set_running", "final_flush", "set_done"}
  /\ faults < MaxFaults
  /\ faults' = faults + 1
  /\ pc' = "except"
  /\ events' = IF pc \in {"flush", "final_flush"} THEN events \o batch ELSE events
  /\ UNCHANGED <<rollup, features, findings, job>>
  /\ UNCHANGED <<file, batch_size, lineno, batch, inserted, bad_lines, calls,
                 reachedDone, runs>>
  /\ UNCHANGED <<rbVars, confVars, det, cf, rbc, flushes>>

\* a failing flush after the local counter was advanced (the counter moved
\* ahead of the commit)
IngestFaultCountsBatch ==
  /\ pc \in {"queued", "open", "flush", "set_running", "final_flush", "set_done"}
  /\ faults < MaxFaults
  /\ faults' = faults + 1
  /\ pc' = "except"
  /\ inserted' = IF pc \in {"flush", "final_flush"} THEN inserted + Len(batch)
                 ELSE inserted
  /\ UNCHANGED dbVars
  /\ UNCHANGED <<file, batch_size, lineno, batch, flushes, bad_lines, calls,
                 reachedDone, runs>>
  /\ UNCHANGED <<rbVars, confVars, det, cf, rbc>>

\* a storage or I/O failure raised inside the try block before line 81:
\* the open transaction (if any) is rolled back, control goes to line 84
IngestFault ==
  /\ pc \in {"queued", "open", "flush", "set_running", "final_flush", "set_done"}
  /\ faults < MaxFaults
  /\ faults' = faults + 1
  /\ pc' = "except"
  /\ UNCHANGED dbVars
  /\ UNCHANGED <<file, batch_size, lineno, batch, inserted, bad_lines, calls,
                 reachedDone, runs>>
  /\ UNCHANGED <<rbVars, confVars, det, cf, rbc, flushes>>

\* lines 84-85: _set_ingest_job(job_id, "failed", inserted, bad_lines, repr(e))
HandleException ==
  /\ pc = "except"
  /\ job' = MkJob("failed", inserted, bad_lines, "repr(e)")
  /\ pc' = "returned"
  /\ UNCHANGED <<events, rollup, features, findings>>
  /\ UNCHANGED <<file, batch_size, lineno, batch, inserted, bad_lines, calls,
                 reachedDone, runs, faults>>
  /\ UNCHANGED <<rbVars, confVars, det, cf, rbc, flushes>>

\* line 85 when _set_ingest_job itself raises: the exception leaves
\* run_ingest_job
HandleExceptionFault ==
  /\ pc = "except"
  /\ faults < MaxFaults
  /\ faults' = faults + 1
  /\ pc' = "raised"
  /\ UNCHANGED dbVars
  /\ UNCHANGED <<file, batch_size, lineno, batch, inserted, bad_lines, calls,
                 reachedDone, runs>>
  /\ UNCHANGED <<rbVars, confVars, det, cf, rbc, flushes>>


(***************************************************************************)
(* build_minute_rollup: one connection, one transaction (psycopg's         *)
(* connect() leaves autocommit off), three steps.  rb.del and rb.ins are   *)
(* the transaction's pending writes; other connections read rollup.        *)
(***************************************************************************)
\* a direct invocation of build_minute_rollup(upload_id) while no ingest job
\* of the upload is running
CallRollupDirect ==
  /\ pc \in {"returned", "raised"}
  /\ rb.pc = "idle"
  /\ rb' = [RbIdle EXCEPT !.pc = "delete", !.caller = "direct"]
  /\ UNCHANGED dbVars
  /\ UNCHANGED ingestVars
  /\ UNCHANGED <<lastRb, prevRb, confVars, det, cf, rbc, flushes>>

\* the delete statement, committing at once (autocommit on)
RollupDeleteAutocommit ==
  /\ rb.pc = "delete"
  /\ rb' = [rb EXCEPT !.pc = "insert", !.del = EmptyBag, !.pre = rollup]
  /\ rollup' = rollup (-) RowsOfUpload(rollup, UploadA)
  /\ UNCHANGED <<events, features, findings, job>>
  /\ UNCHANGED ingestVars
  /\ UNCHANGED <<lastRb, prevRb, confVars, det, cf, rbc, flushes>>

\* the delete statement left out
RollupDeleteNothing ==
  /\ rb.pc = "delete"
  /\ rb' = [rb EXCEPT !.pc = "insert", !.del = EmptyBag, !.pre = rollup]
  /\ UNCHANGED dbVars
  /\ UNCHANGED ingestVars
  /\ UNCHANGED <<lastRb, prevRb, confVars, det, cf, rbc, flushes>>

\* the delete statement without its where clause
RollupDeleteEveryUpload ==
  /\ rb.pc = "delete"
  /\ rb' = [rb EXCEPT !.pc = "insert", !.del = rollup, !.pre = rollup]
  /\ UNCHANGED dbVars
  /\ UNCHANGED ingestVars
  /\ UNCHANGED <<lastRb, prevRb, confVars, det, cf, rbc, flushes>>

\* line 127: delete from event_rollup_minute where upload_id=%s
RollupDelete ==
  /\ rb.pc = "delete"
  /\ rb' = [rb EXCEPT !.pc = "insert", !.del = RowsOfUpload(rollup, UploadA),
                      !.pre = rollup]
  /\ UNCHANGED dbVars
  /\ UNCHANGED ingestVars
  /\ UNCHANGED <<lastRb, prevRb, confVars, det, cf, rbc, flushes>>

\* lines 129-150: insert ... select ... group by; inserted = cur.rowcount
RollupInsert ==
  /\ rb.pc = "insert"
  /\ LET rows == Aggregate(events, UploadA) IN
       rb' = [rb EXCEPT !.pc = "commit", !.ins = SetToBag(rows),
                        !.snap = events, !.ret = Cardinality(rows)]
  /\ UNCHANGED dbVars
  /\ UNCHANGED ingestVars
  /\ UNCHANGED <<lastRb, prevRb, confVars, det, cf, rbc, flushes>>

\* lines 151-152: conn.commit(); return inserted
RollupCommit ==
  /\ rb.pc = "commit"
  /\ rollup' = (rollup (-) rb.del) (+) rb.ins
  /\ prevRb' = lastRb
  /\ lastRb' = [valid |-> TRUE, snap |-> rb.snap,
                rows |-> RowsOfUpload(rollup', UploadA), ret |-> rb.ret]
  /\ rb' = RbIdle
  /\ pc' = IF rb.caller = "job" THEN "returned" ELSE pc
  /\ UNCHANGED <<events, features, findings, job>>
  /\ UNCHANGED <<file, batch_size, lineno, batch, inserted, bad_lines, calls,
                 reachedDone, runs, faults>>
  /\ UNCHANGED <<confVars, det, cf, rbc, flushes>>

\* a storage failure at any statement of build_minute_rollup: leaving the
\* "with connect_db()" block on an exception rolls the transaction back
RollupFault ==
  /\ rb.pc \in {"delete", "insert", "commit"}
  /\ faults < MaxFaults
  /\ faults' = faults + 1
  /\ rb' = RbIdle
  /\ pc' = IF rb.caller = "job" THEN "except" ELSE pc
  /\ UNCHANGED dbVars
  /\ UNCHANGED <<file, batch_size, lineno, batch, inserted, bad_lines, calls,
                 reachedDone, runs>>
  /\ UNCHANGED <<lastRb, prevRb, confVars, det, cf, rbc, flushes>>

Next ==
  \/ StartIngest
  \/ SetRunningFirst
  \/ OpenFile
  \/ ReadLine
  \/ FlushBatch
  \/ SetRunning
  \/ EndOfInput
  \/ FinalFlush
  \/ SetDone
  \/ ComputeFeatures
  \/ ComputeFeaturesFault
  \/ CallRollup
  \/ IngestFault
  \/ HandleException
  \/ HandleExceptionFault
  \/ CallRollupDirect
  \/ RollupDelete
  \/ RollupInsert
  \/ RollupCommit
  \/ RollupFault

Spec == Init /\ [][Next]_vars


(***************************************************************************)
(* Properties of the ingestion pipeline and the rollup builder (Spec).     *)
(***************************************************************************)
\* sum(total) over the rollup rows of upload u
RollupSum(table, u) ==
  LET b == RowsOfUpload(table, u) IN SumTotals(DOMAIN b, b)

EventsOf(evs, u) == {i \in DOMAIN evs : evs[i].upload_id = u}
TimedEventsOf(evs, u) == {i \in EventsOf(evs, u) : Len(evs[i].event_time) = 1}

\* C1: once a rebuild of the upload has committed and no event has been added
\* since its aggregation, the totals of the upload's rollup rows sum to the
\* number of its events with a non-null event_time.
C1_Conservation ==
  (lastRb.valid /\ events = lastRb.snap)
    => RollupSum(rollup, UploadA) = Cardinality(TimedEventsOf(events, UploadA))

\* a committed rebuild over events of which one has a timestamp and one has none
C1_Witness ==
  /\ lastRb.valid
  /\ events = lastRb.snap
  /\ TimedEventsOf(events, UploadA) # {}
  /\ EventsOf(events, UploadA) # TimedEventsOf(events, UploadA)
  /\ RollupSum(rollup, UploadA) >= 1

\* C2: the committed rollup table changes only at the single commit of a
\* rebuild, and that step installs the complete new row set of the upload and
\* leaves other uploads' rows alone; the delete, the insert and a failure
\* between them change nothing a reader can see.
C2_AtomicRebuild ==
  [][rollup' # rollup =>
       /\ rb.pc = "commit"
       /\ rb'.pc = "idle"
       /\ RowsOfUpload(rollup', UploadA) = rb.ins
       /\ RowsOfUpload(rollup', UploadB) = RowsOfUpload(rollup, UploadB)]_vars

\* a rebuild has committed over a non-empty previous row set
C2_Witness ==
  /\ prevRb.valid
  /\ lastRb.valid
  /\ prevRb.rows # EmptyBag
  /\ rb.pc = "idle"

NoDuplicateTuples(b) ==
  /\ \A r \in DOMAIN b : b[r] = 1
  /\ \A r1, r2 \in DOMAIN b :
       [r1 EXCEPT !.total = 0] = [r2 EXCEPT !.total = 0] => r1 = r2

\* C3: two consecutive rebuilds over the same events leave the same rollup
\* rows (no duplicates) and return the same row count.
C3_IdempotentRebuild ==
  (prevRb.valid /\ lastRb.valid /\ prevRb.snap = lastRb.snap)
    => /\ lastRb.rows = prevRb.rows
       /\ lastRb.ret = prevRb.ret
       /\ NoDuplicateTuples(lastRb.rows)

\* two consecutive rebuilds over the same, non-empty aggregation
C3_Witness ==
  /\ prevRb.valid
  /\ lastRb.valid
  /\ prevRb.snap = lastRb.snap
  /\ lastRb.rows # EmptyBag
  /\ lastRb.ret >= 1

\* The specification's reading of a line: a JSON object in the vendor's
\* {"event": {...}} shape is a valid record whatever its timestamp string;
\* text that is not JSON, JSON that is not an object, and an "event" member
\* that is not an object are malformed; blank lines are neither.
SpecValid(line) == line.json = "object" /\ line.event \in {ABSENT, "dict"}
SpecMalformed(line) == line.json \in {"invalid", "array"}
                         \/ (line.json = "object" /\ line.event = "scalar")

NValid     == Cardinality({i \in DOMAIN file : SpecValid(file[i])})
NMalformed == Cardinality({i \in DOMAIN file : SpecMalformed(file[i])})

RunEndedWithoutFault == pc = "returned" /\ faults = 0 /\ runs = 1

\* C4: a run over N valid and M malformed lines inserts N events, records
\* inserted_events = N and bad_lines = M and ends "done".
C4_BadLineTolerance ==
  RunEndedWithoutFault
    => /\ job.status = "done"
       /\ job.inserted_events = NValid
       /\ job.bad_lines = NMalformed
       /\ Cardinality(EventsOf(events, UploadA)) = NValid

\* C5: a record with an unparseable timestamp string is inserted with a null
\* event_time, is not counted as a bad line and is not aggregated.
C5_UnparseableTimestampInserted ==
  RunEndedWithoutFault
    => \A i \in DOMAIN file :
         (file[i].json = "object" /\ file[i].datetime = "not-a-date")
           => /\ \E k \in EventsOf(events, UploadA) :
                   events[k].raw = file[i] /\ events[k].event_time = NullTime
              /\ job.bad_lines <= Len(file) - 1
              /\ job.inserted_events >= 1

\* C10: a run that reached "done" has invoked compute_features and then
\* build_minute_rollup, once each, after the last batch was committed; a run
\* that failed before "done" has invoked neither.
C10_DoneTriggersDownstream ==
  /\ pc \in {"returned", "raised"}
       => calls = IF reachedDone
                  THEN <<"compute_features", "build_minute_rollup">>
                  ELSE <<>>
  /\ calls # <<>> => /\ reachedDone
                     /\ batch = <<>>
                     /\ lineno > Len(file)


(***************************************************************************)
(* _calc_confidence.  Python floats are modelled as exact fixed-point      *)
(* numbers: a confidence c is the integer c * ConfScale.  ConfScale is     *)
(* 100 * RatioUnit, and RatioUnit is a common multiple of every            *)
(* threshold * (cap_multiple - 1) and of the 1800-second window, so each   *)
(* division below is exact.                                                *)
(***************************************************************************)
RatioUnit == 32 * 9 * 125 * 7
ConfScale == 100 * RatioUnit

\* n/100 as a fixed-point confidence
Pct(n) == n * RatioUnit

\* _clamp(x, lo, hi) = max(lo, min(hi, x))
Clamp(x, lo, hi) == Max(lo, Min(hi, x))

\* (severity or "").lower()
LowerSeverity(s) == CASE s \in {"critical", "CRITICAL", "Critical"} -> "critical"
                      [] s \in {"high", "HIGH", "High"} -> "high"
                      [] s \in {"medium", "MEDIUM", "Medium"} -> "medium"
                      [] s \in {"low", "LOW", "Low"} -> "low"
                      [] s = NULL -> ""
                      [] OTHER -> s

\* _severity_base, in hundredths
SeverityBase(severity) ==
  LET s == LowerSeverity(severity)
  IN  CASE s = "critical" -> 72
        [] s = "high"     -> 62
        [] s = "medium"   -> 50
        [] s = "low"      -> 38
        [] OTHER          -> 50

\* (pattern_name or "").upper()
UpperPattern(p) ==
  CASE p \in {"burst_from_single_ip", "BURST_FROM_SINGLE_IP"} -> "BURST_FROM_SINGLE_IP"
    [] p = NULL -> ""
    [] OTHER -> p

\* a ratio score whose numerator is written the wrong way round
RatioScoreReversed(value, threshold, cap_multiple) ==
  IF threshold <= 0 THEN 0
  ELSE Clamp(((threshold - value) * RatioUnit)
               \div (threshold * (cap_multiple - 1)), 0, RatioUnit)

\* _ratio_score(value, threshold, cap_multiple), as a multiple of 1/RatioUnit.
\* Every cap_multiple passed is an integer >= 4, so max(cap_multiple - 1.0,
\* 1e-9) is cap_multiple - 1.
RatioScore(value, threshold, cap_multiple) ==
  IF threshold <= 0 THEN 0
  ELSE Clamp(((value - threshold) * RatioUnit)
               \div (threshold * (cap_multiple - 1)), 0, RatioUnit)

\* evidence.get(k) not in (None, "", "<null>")
Informative(v) == ~(Get(v) \in {NULL, "", "<null>"})

\* lines 228-236: the general evidence-quality boosts, in hundredths
GenericBoost(ev) ==
    (IF Informative(ev.user_email) THEN 3 ELSE 0)
  + (IF Informative(ev.client_ip) THEN 3 ELSE 0)
  + (IF Informative(ev.dest_host) THEN 3 ELSE 0)
  + (IF Informative(ev.threat_category) THEN 3 ELSE 0)

\* A timestamp in an evidence payload: absent (or None), a datetime, or a
\* string (which has no .timestamp attribute).
NoStamp     == [kind |-> "none", t |-> 0]
Stamp(t)    == [kind |-> "datetime", t |-> t]
StrStamp(t) == [kind |-> "str", t |-> t]

\* a chain reward that grows with the delta instead of shrinking
ChainBonusRising(ev) ==
  IF ev.first_phish.kind = "none" \/ ev.first_payload.kind = "none" THEN 0
  ELSE IF ev.first_phish.kind = "datetime" /\ ev.first_payload.kind = "datetime"
  THEN LET delta_sec == Max(0, ev.first_payload.t - ev.first_phish.t)
           t == Clamp((delta_sec * RatioUnit) \div 1800, 0, RatioUnit)
       IN  10 * t
  ELSE 0

\* lines 271-286: the reward for a tighter phish -> payload chain
ChainBonus(ev) ==
  IF ev.first_phish.kind = "none" \/ ev.first_payload.kind = "none" THEN 0
  ELSE IF ev.first_phish.kind = "datetime" /\ ev.first_payload.kind = "datetime"
  THEN LET delta_sec == Max(0, ev.first_payload.t - ev.first_phish.t)
           t == Clamp(((1800 - delta_sec) * RatioUnit) \div 1800, 0, RatioUnit)
       IN  10 * t
  ELSE 0

\* lines 238-286: the pattern-specific boost
PatternBoost(p, ev) ==
  CASE p = "BURST_FROM_SINGLE_IP" ->
         30 * RatioScore(ev.hits_in_minute, 200, 5)
    [] p = "REPEATED_BLOCKED_THREAT_CATEGORY" ->
         28 * RatioScore(ev.blocked_hits, 25, 6)
    [] p = "TOP_BLOCKED_DEST_HOST" ->
         22 * RatioScore(ev.blocked_hits, 15, 6)
    [] p = "ENDPOINT_COMPROMISE_MULTI_CATEGORY" ->
           20 * RatioScore(ev.distinct_threat_categories, 3, 4)
         + 22 * RatioScore(ev.blocked_hits, 12, 6)
    [] p = "C2_BEACONING_SUSPECTED" ->
           18 * RatioScore(ev.active_minutes, 4, 5)
         + 18 * RatioScore(ev.blocked_hits, 8, 8)
         + Pct(4)
    [] p = "PHISH_TO_PAYLOAD_CHAIN_SUSPECTED" ->
           14 * RatioScore(ev.phish_hits, 2, 8)
         + 16 * RatioScore(ev.payload_hits, 2, 10)
         + ChainBonus(ev)
    [] OTHER -> 0

\* conf = base + boost, before the final clamp
RawConfidence(pattern_name, severity, ev) ==
  Pct(SeverityBase(severity)) + Pct(GenericBoost(ev))
    + PatternBoost(UpperPattern(pattern_name), ev)

\* the last line written as _clamp(conf), with _clamp's default bounds 0..1
CalcConfidenceDefaultClamp(pattern_name, severity, ev) ==
  Clamp(RawConfidence(pattern_name, severity, ev), 0, ConfScale)

\* _calc_confidence(pattern_name, severity, evidence)
CalcConfidence(pattern_name, severity, ev) ==
  Clamp(RawConfidence(pattern_name, severity, ev), Pct(10), Pct(99))


(***************************************************************************)
(* SpecConf: _calc_confidence on bounded inputs.                           *)
(***************************************************************************)
RampSteps == 2   \* sampled values between a threshold and its cap

SixPatterns == {"BURST_FROM_SINGLE_IP", "REPEATED_BLOCKED_THREAT_CATEGORY",
                "TOP_BLOCKED_DEST_HOST", "ENDPOINT_COMPROMISE_MULTI_CATEGORY",
                "C2_BEACONING_SUSPECTED", "PHISH_TO_PAYLOAD_CHAIN_SUSPECTED"}
ConfPatterns == SixPatterns \cup {"burst_from_single_ip", "SOMETHING_ELSE"}
ConfSeverities == {"critical", "high", "medium", "low", "HIGH", "info"}

\* the numeric evidence fields a pattern reads, with the threshold and the cap
\* multiple the inputs are spread around
NumFields(p) ==
  CASE UpperPattern(p) = "BURST_FROM_SINGLE_IP" -> {<<"hits_in_minute", 200, 5>>}
    [] p = "REPEATED_BLOCKED_THREAT_CATEGORY" -> {<<"blocked_hits", 25, 6>>}
    [] p = "TOP_BLOCKED_DEST_HOST" -> {<<"blocked_hits", 15, 6>>}
    [] p = "ENDPOINT_COMPROMISE_MULTI_CATEGORY" ->
         {<<"distinct_threat_categories", 3, 4>>, <<"blocked_hits", 12, 6>>}
    [] p = "C2_BEACONING_SUSPECTED" ->
         {<<"active_minutes", 4, 5>>, <<"blocked_hits", 8, 8>>}
    [] p = "PHISH_TO_PAYLOAD_CHAIN_SUSPECTED" ->
         {<<"phish_hits", 2, 8>>, <<"payload_hits", 2, 10>>}
    [] OTHER -> {}

Ramp(th, cap) ==
  {0, th - 1, cap * th + 1}
    \cup {th + (k * (cap * th - th)) \div RampSteps : k \in 0..RampSteps}

FieldValues(p, f) ==
  LET hit == {x \in NumFields(p) : x[1] = f}
  IN  IF hit = {} THEN {0}
      ELSE UNION {Ramp(x[2], x[3]) : x \in hit}

EntityProfiles ==
  {<<ABSENT, ABSENT, ABSENT, ABSENT>>,
   <<"u1", "10.0.0.5", "h1", "Malware">>,
   <<"<null>", "<null>", NULL, "">>,
   <<"u1", ABSENT, "h1", NULL>>}

StampPairs(p) ==
  IF p = "PHISH_TO_PAYLOAD_CHAIN_SUSPECTED"
  THEN {<<NoStamp, NoStamp>>, <<Stamp(600), Stamp(600)>>, <<Stamp(600), Stamp(1500)>>,
        <<Stamp(600), Stamp(2400)>>, <<Stamp(600), Stamp(3000)>>,
        <<Stamp(600), Stamp(0)>>,
        <<Stamp(600), StrStamp(600)>>}
  ELSE {<<NoStamp, NoStamp>>}

ConfEvidence(p) ==
  {[user_email |-> g[1], client_ip |-> g[2], dest_host |-> g[3],
    threat_category |-> g[4],
    hits_in_minute |-> v1, blocked_hits |-> v2, distinct_threat_categories |-> v3,
    active_minutes |-> v4, phish_hits |-> v5, payload_hits |-> v6,
    first_phish |-> st[1], first_payload |-> st[2]] :
     g \in EntityProfiles,
     v1 \in FieldValues(p, "hits_in_minute"),
     v2 \in FieldValues(p, "blocked_hits"),
     v3 \in FieldValues(p, "distinct_threat_categories"),
     v4 \in FieldValues(p, "active_minutes"),
     v5 \in FieldValues(p, "phish_hits"),
     v6 \in FieldValues(p, "payload_hits"),
     st \in StampPairs(p)}

InitConf ==
  /\ events = InitEvents
  /\ rollup = InitRollup
  /\ features = InitFeatures
  /\ findings = <<>>
  /\ job = NoJob
  /\ file = <<>>
  /\ batch_size = 1
  /\ pc = "idle"
  /\ lineno = 1
  /\ batch = <<>>
  /\ inserted = 0
  /\ bad_lines = 0
  /\ calls = <<>>
  /\ reachedDone = FALSE
  /\ runs = 0
  /\ faults = 0
  /\ rb = RbIdle
  /\ lastRb = NoRb
  /\ prevRb = NoRb
  /\ \E p \in ConfPatterns, sev \in ConfSeverities :
       \E ev \in ConfEvidence(p) :
         cIn = [pattern |-> p, severity |-> sev, evidence |-> ev]
  /\ cOut = NoConf
  /\ cPrev = NoPrev
  /\ det = DetIdle
  /\ cf = CfIdle
  /\ rbc = RbcIdle
  /\ flushes = <<>>

\* a call _calc_confidence(pattern_name, severity, evidence)
ConfCall ==
  /\ ~cOut.done
  /\ cOut' = [done |-> TRUE,
              conf |-> CalcConfidence(cIn.pattern, cIn.severity, cIn.evidence)]
  /\ UNCHANGED <<cIn, cPrev>>
  /\ UNCHANGED dbVars
  /\ UNCHANGED ingestVars
  /\ UNCHANGED <<rbVars, det, cf, rbc, flushes>>

\* a second call with one numeric evidence value raised and everything else,
\* severity included, as before
ConfRaise ==
  /\ cOut.done
  /\ ~cPrev.valid
  /\ \E x \in NumFields(cIn.pattern) :
       \E v \in FieldValues(cIn.pattern, x[1]) \cup {cIn.evidence[x[1]] + 1} :
         /\ v > cIn.evidence[x[1]]
         /\ cPrev' = [valid |-> TRUE, pattern |-> cIn.pattern,
                      severity |-> cIn.severity, evidence |-> cIn.evidence,
                      field |-> x[1], conf |-> cOut.conf]
         /\ cIn' = [cIn EXCEPT !.evidence[x[1]] = v]
         /\ cOut' = [done |-> TRUE,
                     conf |-> CalcConfidence(cIn.pattern, cIn.severity, cIn'.evidence)]
  /\ UNCHANGED dbVars
  /\ UNCHANGED ingestVars
  /\ UNCHANGED <<rbVars, det, cf, rbc, flushes>>

\* the first_payload times a later call may carry
DelayTimes == {600, 601, 1500, 2399, 2400, 3000}

\* a second call for a chain finding whose first payload bucket is later
\* (a longer delta) and everything else as before
ConfDelay ==
  /\ cOut.done
  /\ ~cPrev.valid
  /\ cIn.pattern = "PHISH_TO_PAYLOAD_CHAIN_SUSPECTED"
  /\ cIn.evidence.first_phish.kind = "datetime"
  /\ cIn.evidence.first_payload.kind = "datetime"
  /\ \E t \in DelayTimes :
       /\ t > cIn.evidence.first_payload.t
       /\ cPrev' = [valid |-> TRUE, pattern |-> cIn.pattern,
                    severity |-> cIn.severity, evidence |-> cIn.evidence,
                    field |-> "first_payload", conf |-> cOut.conf]
       /\ cIn' = [cIn EXCEPT !.evidence.first_payload = Stamp(t)]
       /\ cOut' = [done |-> TRUE,
                   conf |-> CalcConfidence(cIn.pattern, cIn.severity, cIn'.evidence)]
  /\ UNCHANGED dbVars
  /\ UNCHANGED ingestVars
  /\ UNCHANGED <<rbVars, det, cf, rbc, flushes>>

NextConf ==
  \/ ConfCall
  \/ ConfRaise
  \/ ConfDelay

SpecConf == InitConf /\ [][NextConf]_vars

\* C6: every value _calc_confidence returns lies in [0.10, 0.99].
C6_ConfidenceBounds ==
  cOut.done => (Pct(10) <= cOut.conf /\ cOut.conf <= Pct(99))

\* a call whose unclamped sum exceeds 0.99 and is returned as exactly 0.99
C6_Witness ==
  /\ cOut.done
  /\ cOut.conf = Pct(99)
  /\ RawConfidence(cIn.pattern, cIn.severity, cIn.evidence) > Pct(100)

\* C7: raising one numeric evidence value, with the pattern, the severity and
\* the other evidence fields held fixed, never lowers the confidence.
C7_Monotone ==
  (cPrev.valid /\ cPrev.field # "first_payload") => cOut.conf >= cPrev.conf

\* a raise that strictly increased the confidence
C7_Witness ==
  /\ cPrev.valid
  /\ cPrev.field # "first_payload"
  /\ cPrev.pattern = cIn.pattern
  /\ cPrev.severity = cIn.severity
  /\ cIn.evidence[cPrev.field] > cPrev.evidence[cPrev.field]
  /\ cOut.conf > cPrev.conf


(***************************************************************************)
(* run_detections: the six detector queries over event_rollup_minute.      *)
(***************************************************************************)
BurstThreshold        == 200
BurstLimit            == 20
RepeatedThreshold     == 25
RepeatedLimit         == 25
HostThreshold         == 15
HostLimit             == 20
EndpointMinCategories == 3
EndpointMinBlocks     == 12
EndpointCritical      == 40
EndpointLimit         == 10
C2MinMinutes          == 4
C2MinTotal            == 8
C2Limit               == 15
PhishWindowMinutes    == 30
PhishMin              == 2
PayloadMin            == 2
PhishLimit            == 10

\* The lower-cased prefixes, among those the queries match with ILIKE 'x%',
\* that a threat category starts with.
PrefixesOf(c) ==
  CASE c \in {"Phishing", "phishing kit"}       -> {"phishing"}
    [] c \in {"Malware", "MALWARE site"}        -> {"malware"}
    [] c = "Ransomware"                         -> {"ransomware"}
    [] c \in {"Botnet", "Botnet Callback"}      -> {"botnet"}
    [] c = "Cryptomining"                       -> {"cryptomining"}
    [] c = "Data Transfer"                      -> {"data transfer"}
    [] c = "Data Leakage"                       -> {"data leakage"}
    [] c = "Command and Control"                -> {"command"}
    [] c = "C2 Traffic"                         -> {"c2"}
    [] OTHER                                    -> {}

\* threat_category ILIKE 'prefix%' for one of the prefixes in P
ILikeAnyPrefix(c, P) == c # NULL /\ PrefixesOf(c) \cap P # {}

\* COALESCE(x, '<null>')
Coalesce(x) == IF x = NULL THEN "<null>" ELSE x

\* order by ... asc limit n: the lowest groups first
RECURSIVE OrderedBottom(_, _)
OrderedBottom(G, n) ==
  IF n = 0 \/ G = {} THEN {<<>>}
  ELSE LET least == {g \in G : \A h \in G : g[1] <= h[1]}
       IN  UNION {{<<g[2]>> \o rest : rest \in OrderedBottom(G \ {g}, n - 1)} : g \in least}

\* order by <metric> desc limit n: the sequences a query may return for the
\* set G of <<metric, row>> pairs (rows with equal metrics come in any order)
RECURSIVE OrderedTop(_, _)
OrderedTop(G, n) ==
  IF n = 0 \/ G = {} THEN {<<>>}
  ELSE LET best == {g \in G : \A h \in G : g[1] >= h[1]}
       IN  UNION {{<<g[2]>> \o rest : rest \in OrderedTop(G \ {g}, n - 1)} : g \in best}

RowsFor(table, u) == {r \in DOMAIN table : r.upload_id = u}

\* ---- 1) burst from a single client IP in a minute (lines 85-98)
\* having sum(total) > 200
BurstHavingStrict(hits) == hits > BurstThreshold

\* having sum(total) >= 200
BurstHaving(hits) == hits >= BurstThreshold

BurstGroups(table, u) ==
  LET rows == {r \in RowsFor(table, u) : r.client_ip # NULL}
      keys == {<<r.bucket, r.client_ip>> : r \in rows}
      hits(k) == SumTotals({r \in rows : <<r.bucket, r.client_ip>> = k}, table)
  IN  {<<hits(k), [bucket |-> k[1], client_ip |-> k[2], hits |-> hits(k)]>> :
         k \in {x \in keys : BurstHaving(hits(x))}}

\* ---- 2) repeated blocked threat category (lines 122-135)
RepeatedHaving(hits) == hits >= RepeatedThreshold

RepeatedGroups(table, u) ==
  LET rows == {r \in RowsFor(table, u) :
                 ILike(r.action, "Blocked") /\ r.threat_category # NULL}
      keyOf(r) == <<r.user_email, r.client_ip, r.threat_category>>
      keys == {keyOf(r) : r \in rows}
      hits(k) == SumTotals({r \in rows : keyOf(r) = k}, table)
  IN  {<<hits(k), [user_email |-> k[1], client_ip |-> k[2],
                   threat_category |-> k[3], blocked_hits |-> hits(k)]>> :
         k \in {x \in keys : RepeatedHaving(hits(x))}}

\* ---- 3) blocked traffic concentrated on a destination host (lines 161-174)
HostHaving(hits) == hits >= HostThreshold

HostGroups(table, u) ==
  LET rows == {r \in RowsFor(table, u) :
                 ILike(r.action, "Blocked") /\ r.dest_host # NULL}
      keys == {r.dest_host : r \in rows}
      hits(k) == SumTotals({r \in rows : r.dest_host = k}, table)
  IN  {<<hits(k), [dest_host |-> k, hits |-> hits(k)]>> :
         k \in {x \in keys : HostHaving(hits(x))}}

\* the endpoint query without its test on the number of distinct categories
EndpointGroupsAnyBreadth(table, u) ==
  LET rows == {r \in RowsFor(table, u) :
                 ILike(r.action, "Blocked") /\ r.threat_category # NULL}
      keyOf(r) == <<Coalesce(r.user_email), Coalesce(r.client_ip)>>
      keys == {keyOf(r) : r \in rows}
      grp(k) == {r \in rows : keyOf(r) = k}
      cats(k) == Cardinality({r.threat_category : r \in grp(k)})
      hits(k) == SumTotals(grp(k), table)
  IN  {<<hits(k), [user_email |-> k[1], client_ip |-> k[2],
                   distinct_cats |-> cats(k), blocked_hits |-> hits(k)]>> :
         k \in {x \in keys : hits(x) >= EndpointMinBlocks}}

\* ---- 4) _detect_endpoint_compromise_multicategory (lines 316-338)
EndpointGroups(table, u) ==
  LET rows == {r \in RowsFor(table, u) :
                 ILike(r.action, "Blocked") /\ r.threat_category # NULL}
      keyOf(r) == <<Coalesce(r.user_email), Coalesce(r.client_ip)>>
      keys == {keyOf(r) : r \in rows}
      grp(k) == {r \in rows : keyOf(r) = k}
      cats(k) == Cardinality({r.threat_category : r \in grp(k)})
      hits(k) == SumTotals(grp(k), table)
  IN  {<<hits(k), [user_email |-> k[1], client_ip |-> k[2],
                   distinct_cats |-> cats(k), blocked_hits |-> hits(k)]>> :
         k \in {x \in keys : cats(x) >= EndpointMinCategories
                               /\ hits(x) >= EndpointMinBlocks}}

\* ---- 5) _detect_c2_beaconing_suspected (lines 382-405)
C2Groups(table, u) ==
  LET rows == {r \in RowsFor(table, u) :
                 /\ ILike(r.action, "Blocked")
                 /\ r.dest_host # NULL
                 /\ ILikeAnyPrefix(r.threat_category, {"botnet", "command", "c2"})}
      keyOf(r) == <<Coalesce(r.user_email), Coalesce(r.client_ip), r.dest_host>>
      keys == {keyOf(r) : r \in rows}
      grp(k) == {r \in rows : keyOf(r) = k}
      mins(k) == Cardinality({r.bucket : r \in {x \in grp(k) : x.bucket # NullTime}})
      hits(k) == SumTotals(grp(k), table)
  IN  {<<hits(k), [user_email |-> k[1], client_ip |-> k[2], dest_host |-> k[3],
                   active_minutes |-> mins(k), hits |-> hits(k)]>> :
         k \in {x \in keys : mins(x) >= C2MinMinutes /\ hits(x) >= C2MinTotal}}

\* ---- 6) _detect_phish_to_payload_chain (lines 449-491)
PayloadPrefixes == {"malware", "ransomware", "botnet", "cryptomining",
                    "data transfer", "data leakage"}

\* MIN(bucket) of a non-empty set of rows with non-null buckets
FirstBucket(rows) ==
  LET B == {r.bucket[1] : r \in {x \in rows : x.bucket # NullTime}}
  IN  CHOOSE b \in B : \A x \in B : b <= x

\* lines 484-485: p.phish_hits >= %s AND y.payload_hits >= %s
\*   AND y.first_payload <= (p.first_phish + (%s || ' minutes')::interval)
ChainWhere(phish_hits, payload_hits, first_phish, first_payload) ==
  /\ phish_hits >= PhishMin
  /\ payload_hits >= PayloadMin
  /\ first_payload <= first_phish + PhishWindowMinutes * 60

PhishGroups(table, u) ==
  LET blocked == {r \in RowsFor(table, u) :
                    ILike(r.action, "Blocked") /\ r.bucket # NullTime}
      keyOf(r) == <<Coalesce(r.user_email), Coalesce(r.client_ip)>>
      phish == {r \in blocked : ILikeAnyPrefix(r.threat_category, {"phishing"})}
      payload == {r \in blocked : ILikeAnyPrefix(r.threat_category, PayloadPrefixes)}
      pg(k) == {r \in phish : keyOf(r) = k}
      yg(k) == {r \in payload : keyOf(r) = k}
      joined == {keyOf(r) : r \in phish} \cap {keyOf(r) : r \in payload}
  IN  {<<SumTotals(yg(k), table),
         [user_email |-> k[1], client_ip |-> k[2],
          first_phish |-> FirstBucket(pg(k)), first_payload |-> FirstBucket(yg(k)),
          phish_hits |-> SumTotals(pg(k), table),
          payload_hits |-> SumTotals(yg(k), table)]>> :
         k \in {x \in joined :
                  ChainWhere(SumTotals(pg(x), table), SumTotals(yg(x), table),
                             FirstBucket(pg(x)), FirstBucket(yg(x)))}}


(***************************************************************************)
(* run_detections: evidence payloads, _insert_finding and the steps.       *)
(***************************************************************************)
NoEntity == [user_email |-> ABSENT, client_ip |-> ABSENT, dest_host |-> ABSENT]

\* an evidence dict with none of the keys that _calc_confidence reads
NoEvidence ==
  [user_email |-> ABSENT, client_ip |-> ABSENT, dest_host |-> ABSENT,
   threat_category |-> ABSENT,
   hits_in_minute |-> 0, blocked_hits |-> 0, distinct_threat_categories |-> 0,
   active_minutes |-> 0, phish_hits |-> 0, payload_hits |-> 0,
   first_phish |-> NoStamp, first_payload |-> NoStamp,
   bucket |-> NullTime, entity |-> NoEntity]

\* lines 100-108
BurstEvidence(row) ==
  [NoEvidence EXCEPT !.bucket = row.bucket, !.client_ip = row.client_ip,
                     !.hits_in_minute = row.hits]

\* lines 138-147
RepeatedEvidence(row) ==
  [NoEvidence EXCEPT !.user_email = row.user_email, !.client_ip = row.client_ip,
                     !.threat_category = row.threat_category,
                     !.blocked_hits = row.blocked_hits]

\* lines 177-184
HostEvidence(row) ==
  [NoEvidence EXCEPT !.dest_host = row.dest_host, !.blocked_hits = row.hits]

\* a finding dict as the three helper detectors return it
MkFinding(p, sev, ev) ==
  [pattern_name |-> p, severity |-> sev,
   confidence |-> CalcConfidence(p, sev, ev), evidence |-> ev]

\* lines 341-373
EndpointFinding(row) ==
  MkFinding("ENDPOINT_COMPROMISE_MULTI_CATEGORY",
            IF row.blocked_hits >= EndpointCritical THEN "critical" ELSE "high",
            [NoEvidence EXCEPT
               !.entity = [NoEntity EXCEPT !.user_email = row.user_email,
                                           !.client_ip = row.client_ip],
               !.blocked_hits = row.blocked_hits,
               !.distinct_threat_categories = row.distinct_cats])

\* lines 408-441
C2Finding(row) ==
  MkFinding("C2_BEACONING_SUSPECTED", "high",
            [NoEvidence EXCEPT
               !.entity = [user_email |-> row.user_email,
                           client_ip |-> row.client_ip,
                           dest_host |-> row.dest_host],
               !.active_minutes = row.active_minutes,
               !.blocked_hits = row.hits])

\* lines 494-537
PhishFinding(row) ==
  MkFinding("PHISH_TO_PAYLOAD_CHAIN_SUSPECTED", "high",
            [NoEvidence EXCEPT
               !.entity = [NoEntity EXCEPT !.user_email = row.user_email,
                                           !.client_ip = row.client_ip],
               !.first_phish = Stamp(row.first_phish),
               !.first_payload = Stamp(row.first_payload),
               !.phish_hits = row.phish_hits,
               !.payload_hits = row.payload_hits])

\* the findings of a sequence of query rows, in order
RECURSIVE FindingsOf(_, _)
FindingsOf(rows, kind) ==
  IF rows = <<>> THEN <<>>
  ELSE <<CASE kind = "endpoint" -> EndpointFinding(Head(rows))
           [] kind = "c2"       -> C2Finding(Head(rows))
           [] OTHER             -> PhishFinding(Head(rows))>>
       \o FindingsOf(Tail(rows), kind)

\* _insert_finding: a fresh id, one row, committed on its own connection
NewFindingId(fs) == Len(fs) + 1

\* an insert that skips a finding the upload already holds
InsertFindingOnce(fs, u, p, sev, conf, ev) ==
  IF \E i \in DOMAIN fs : /\ fs[i].upload_id = u /\ fs[i].pattern_name = p
                          /\ fs[i].evidence = ev
  THEN fs
  ELSE Append(fs, [id |-> NewFindingId(fs), upload_id |-> u, pattern_name |-> p,
                   severity |-> sev, confidence |-> conf, evidence |-> ev])

InsertFinding(fs, u, p, sev, conf, ev) ==
  Append(fs, [id |-> NewFindingId(fs), upload_id |-> u, pattern_name |-> p,
              severity |-> sev, confidence |-> conf, evidence |-> ev])

DetectUnchanged ==
  /\ UNCHANGED <<events, rollup, features, job>>
  /\ UNCHANGED ingestVars
  /\ UNCHANGED <<rbVars, confVars, cf, rbc, flushes>>

\* start_detect schedules run_detections(upload_id); line 79: created = []
StartDetect ==
  /\ det.pc \in {"idle", "done", "raised"}
  /\ det.runs < MaxDetectRuns
  /\ det' = [pc |-> "burst_query", pending |-> <<>>, extra |-> <<>>,
             created |-> <<>>, runs |-> det.runs + 1]
  /\ UNCHANGED findings
  /\ DetectUnchanged

\* lines 85-98
BurstQuery ==
  /\ det.pc = "burst_query"
  /\ \E res \in OrderedTop(BurstGroups(rollup, UploadA), BurstLimit) :
       det' = [det EXCEPT !.pc = "burst_insert", !.pending = res]
  /\ UNCHANGED findings
  /\ DetectUnchanged

\* lines 99-119: one iteration of the loop, or its end
BurstInsert ==
  /\ det.pc = "burst_insert"
  /\ IF det.pending = <<>>
     THEN /\ det' = [det EXCEPT !.pc = "repeated_query"]
          /\ UNCHANGED findings
     ELSE LET ev == BurstEvidence(Head(det.pending))
          IN  /\ findings' = InsertFinding(findings, UploadA,
                               "BURST_FROM_SINGLE_IP", "high",
                               CalcConfidence("BURST_FROM_SINGLE_IP", "high", ev), ev)
              /\ det' = [det EXCEPT !.pending = Tail(det.pending),
                                    !.created = Append(det.created,
                                                       NewFindingId(findings))]
  /\ DetectUnchanged

\* lines 122-136
RepeatedQuery ==
  /\ det.pc = "repeated_query"
  /\ \E res \in OrderedTop(RepeatedGroups(rollup, UploadA), RepeatedLimit) :
       det' = [det EXCEPT !.pc = "repeated_insert", !.pending = res]
  /\ UNCHANGED findings
  /\ DetectUnchanged

\* lines 137-158
RepeatedInsert ==
  /\ det.pc = "repeated_insert"
  /\ IF det.pending = <<>>
     THEN /\ det' = [det EXCEPT !.pc = "host_query"]
          /\ UNCHANGED findings
     ELSE LET ev == RepeatedEvidence(Head(det.pending))
          IN  /\ findings' = InsertFinding(findings, UploadA,
                               "REPEATED_BLOCKED_THREAT_CATEGORY", "high",
                               CalcConfidence("REPEATED_BLOCKED_THREAT_CATEGORY",
                                              "high", ev), ev)
              /\ det' = [det EXCEPT !.pending = Tail(det.pending),
                                    !.created = Append(det.created,
                                                       NewFindingId(findings))]
  /\ DetectUnchanged

\* lines 161-175
HostQuery ==
  /\ det.pc = "host_query"
  /\ \E res \in OrderedTop(HostGroups(rollup, UploadA), HostLimit) :
       det' = [det EXCEPT !.pc = "host_insert", !.pending = res]
  /\ UNCHANGED findings
  /\ DetectUnchanged

\* lines 176-195
HostInsert ==
  /\ det.pc = "host_insert"
  /\ IF det.pending = <<>>
     THEN /\ det' = [det EXCEPT !.pc = "endpoint_query", !.extra = <<>>]
          /\ UNCHANGED findings
     ELSE LET ev == HostEvidence(Head(det.pending))
          IN  /\ findings' = InsertFinding(findings, UploadA,
                               "TOP_BLOCKED_DEST_HOST", "medium",
                               CalcConfidence("TOP_BLOCKED_DEST_HOST", "medium", ev),
                               ev)
              /\ det' = [det EXCEPT !.pending = Tail(det.pending),
                                    !.created = Append(det.created,
                                                       NewFindingId(findings))]
  /\ DetectUnchanged

\* line 198: extra += _detect_endpoint_compromise_multicategory(conn, upload_id)
EndpointQuery ==
  /\ det.pc = "endpoint_query"
  /\ \E res \in OrderedTop(EndpointGroups(rollup, UploadA), EndpointLimit) :
       det' = [det EXCEPT !.pc = "c2_query",
                          !.extra = det.extra \o FindingsOf(res, "endpoint")]
  /\ UNCHANGED findings
  /\ DetectUnchanged

\* line 199: extra += _detect_c2_beaconing_suspected(conn, upload_id)
C2Query ==
  /\ det.pc = "c2_query"
  /\ \E res \in OrderedTop(C2Groups(rollup, UploadA), C2Limit) :
       det' = [det EXCEPT !.pc = "phish_query",
                          !.extra = det.extra \o FindingsOf(res, "c2")]
  /\ UNCHANGED findings
  /\ DetectUnchanged

\* line 200: extra += _detect_phish_to_payload_chain(conn, upload_id)
PhishQuery ==
  /\ det.pc = "phish_query"
  /\ \E res \in OrderedTop(PhishGroups(rollup, UploadA), PhishLimit) :
       det' = [det EXCEPT !.pc = "extra_insert",
                          !.extra = det.extra \o FindingsOf(res, "phish")]
  /\ UNCHANGED findings
  /\ DetectUnchanged

\* lines 202-212: the confidence is computed again and the finding inserted;
\* the id that _insert_finding returns is dropped
ExtraInsert ==
  /\ det.pc = "extra_insert"
  /\ det.extra # <<>>
  /\ LET f == Head(det.extra)
     IN  findings' = InsertFinding(findings, UploadA, f.pattern_name, f.severity,
                       CalcConfidence(f.pattern_name, f.severity, f.evidence),
                       f.evidence)
  /\ det' = [det EXCEPT !.extra = Tail(det.extra)]
  /\ DetectUnchanged

\* line 214: return {"upload_id": ..., "created_finding_ids": created}
DetectReturn ==
  /\ det.pc = "extra_insert"
  /\ det.extra = <<>>
  /\ det' = [det EXCEPT !.pc = "done"]
  /\ UNCHANGED findings
  /\ DetectUnchanged

\* an insert (or its connection) fails: the exception leaves run_detections,
\* and the findings committed so far stay
DetectFault ==
  /\ \/ det.pc \in {"burst_insert", "repeated_insert", "host_insert"}
        /\ det.pending # <<>>
     \/ det.pc = "extra_insert" /\ det.extra # <<>>
  /\ faults < MaxFaults
  /\ faults' = faults + 1
  /\ det' = [det EXCEPT !.pc = "raised"]
  /\ UNCHANGED <<events, rollup, features, job, findings>>
  /\ UNCHANGED <<file, batch_size, pc, lineno, batch, inserted, bad_lines, calls,
                 reachedDone, runs>>
  /\ UNCHANGED <<rbVars, confVars, cf, rbc, flushes>>

(***************************************************************************)
(* SpecDetect: run_detections over bounded rollup tables.                  *)
(***************************************************************************)
MaxExtraRows == 1   \* single-event rows added to a table's base row

\* a rollup row of UploadA
R(b, u, ip, h, a, c, n) ==
  [upload_id |-> UploadA, bucket |-> At(b), user_email |-> u, client_ip |-> ip,
   dest_host |-> h, action |-> a, threat_category |-> c, total |-> n]

\* the entity fields of a base row: all present, or one of them null, or the
\* action in another case or not a block
BaseProfiles ==
  {<<"u1", "10.0.0.5", "h1", "Blocked", "Malware">>,
   <<NULL, "10.0.0.5", "h1", "Blocked", "Malware">>,
   <<"u1", NULL,       "h1", "Blocked", "Malware">>,
   <<"u1", "10.0.0.5", NULL, "Blocked", "Malware">>,
   <<"u1", "10.0.0.5", "h1", "Blocked", NULL>>,
   <<"u1", "10.0.0.5", "h1", "blocked", "Malware">>,
   <<"u1", "10.0.0.5", "h1", "Allowed", "Malware">>}

\* one row whose total sits at or just below a threshold ...
BaseRows ==
  {R(0, p[1], p[2], p[3], p[4], p[5], n) :
     p \in BaseProfiles,
     n \in {HostThreshold - 1, HostThreshold,
            RepeatedThreshold - 1, RepeatedThreshold,
            BurstThreshold - 1, BurstThreshold}}

\* ... and single-event rows that fall into its groups or beside them
ExtraRows ==
  {R(b, u, "10.0.0.5", "h1", "Blocked", c, 1) :
     b \in {0, 60}, u \in {"u1", "u2"}, c \in {"Malware", "Adware"}}

ThresholdTables ==
  {{base} \cup extra :
     base \in BaseRows,
     extra \in {x \in SUBSET ExtraRows : Cardinality(x) <= MaxExtraRows}}

\* phishing at minute 10, a second category before, at, or after it
ChainTables ==
  {{R(600, u, "10.0.0.5", "mail.example", "Blocked", pc1, pn),
    R(yb, u, yip, "h1", ya, yc, yn)} :
     u \in {NULL, "u1"}, pc1 \in {"Phishing", "phishing kit"}, pn \in {1, 2},
     yb \in {0, 600, 1200, 2400, 2460, 3000},
     yip \in {"10.0.0.5", "10.0.0.6"}, ya \in {"Blocked", "Allowed"},
     yc \in {"Malware", "Botnet Callback", "Adware"}, yn \in {1, 2}}

\* one more qualifying burst group than the query's limit
CapTable ==
  {R(60 * k, NULL, "10.0.0.5", NULL, "Allowed", NULL, BurstThreshold + k) :
     k \in 0..BurstLimit}

\* one endpoint blocked in three categories
EndpointTable ==
  {R(0, "u1", "10.0.0.5", "h1", "Blocked", "Malware", 4),
   R(0, "u1", "10.0.0.5", "h1", "Blocked", "Phishing", 4),
   R(60, "u1", "10.0.0.5", "h2", "Blocked", "Adware", 4)}

\* blocked callbacks to one host in four distinct minutes
C2Table ==
  {R(60 * k, "u1", "10.0.0.5", "c2.example", "Blocked", "Botnet Callback", 2) :
     k \in 0..3}

\* every count-threshold detector with one group at its threshold (made of
\* two rows) and one group just below it
BoundaryTable ==
  {R(0,   "u1", "10.0.0.5", NULL, "Allowed", NULL, BurstThreshold - 1),
   R(0,   "u2", "10.0.0.5", NULL, "Allowed", NULL, 1),
   R(60,  "u1", "10.0.0.5", NULL, "Allowed", NULL, BurstThreshold - 1),
   R(120, "u1", "10.0.0.6", NULL, "Blocked", "Malware", RepeatedThreshold - 1),
   R(180, "u1", "10.0.0.6", NULL, "Blocked", "Malware", 1),
   R(120, "u2", "10.0.0.6", NULL, "Blocked", "Adware", RepeatedThreshold - 1),
   R(240, NULL, NULL, "h1", "Blocked", NULL, HostThreshold - 1),
   R(300, NULL, NULL, "h1", "blocked", NULL, 1),
   R(240, NULL, NULL, "h2", "Blocked", NULL, HostThreshold - 1)}

\* one endpoint blocked in two categories plus a third row that completes
\* the breadth and the volume, or does not
EndpointTables ==
  {{R(0, u, "10.0.0.5", "h1", "Blocked", "Malware", a),
    R(0, u, "10.0.0.5", "h1", "Blocked", "Ransomware", b),
    R(60, u, "10.0.0.5", "h2", act3, cat3, c)} :
     u \in {NULL, "u1"}, a \in {4, 13}, b \in {4, 13}, c \in {3, 4, 13, 14},
     act3 \in {"Blocked", "Allowed"}, cat3 \in {"Adware", "Malware", NULL}}

\* distinct users and hosts for tables with more groups than a query keeps
CapUsers == <<"u01", "u02", "u03", "u04", "u05", "u06", "u07", "u08",
              "u09", "u10", "u11", "u12", "u13", "u14", "u15", "u16">>
CapHosts == <<"host01", "host02", "host03", "host04", "host05", "host06",
              "host07", "host08", "host09", "host10", "host11", "host12",
              "host13", "host14", "host15", "host16", "host17", "host18",
              "host19", "host20", "host21">>

\* one more qualifying group than the limit, for each of the other detectors
RepeatedCapTable ==
  {R(0, CapUsers[((k - 1) % 13) + 1], "10.0.0.5", NULL, "Blocked",
     IF k <= 13 THEN "Adware" ELSE "Spyware", RepeatedThreshold + k - 1) :
     k \in 1..(RepeatedLimit + 1)}

HostCapTable ==
  {R(0, NULL, NULL, CapHosts[k], "Blocked", NULL, HostThreshold + k - 1) :
     k \in 1..(HostLimit + 1)}

EndpointCapTable ==
  UNION {{R(0, CapUsers[k], NULL, NULL, "Blocked", "Adware", 4),
          R(0, CapUsers[k], NULL, NULL, "Blocked", "Spyware", 4),
          R(0, CapUsers[k], NULL, NULL, "Blocked", "Gambling", 4 + k - 1)} :
           k \in 1..(EndpointLimit + 1)}

C2CapTable ==
  UNION {{R(60 * m, CapUsers[k], NULL, "c2.example", "Blocked", "C2 Traffic",
            IF m = 0 THEN 2 + k - 1 ELSE 2) : m \in 0..3} :
           k \in 1..(C2Limit + 1)}

PhishCapTable ==
  UNION {{R(0, CapUsers[k], NULL, NULL, "Blocked", "Phishing", 2),
          R(60, CapUsers[k], NULL, NULL, "Blocked", "Cryptomining", 2 + k - 1)} :
           k \in 1..(PhishLimit + 1)}

CapTables == {CapTable, RepeatedCapTable, HostCapTable, EndpointCapTable,
              C2CapTable, PhishCapTable}

DetectTables == ThresholdTables \cup ChainTables \cup EndpointTables \cup CapTables
                  \cup {BoundaryTable, EndpointTable, C2Table}

\* the events a rollup row counts (their times truncate to the row's bucket)
EventOfRow(r) ==
  [upload_id |-> r.upload_id, event_time |-> r.bucket,
   user_email |-> r.user_email, client_ip |-> r.client_ip,
   dest_host |-> r.dest_host, action |-> r.action,
   threat_category |-> r.threat_category,
   raw |-> MkLine("object", "dict", r.bucket, r.user_email, r.client_ip,
                  r.dest_host, r.action, r.threat_category)]

RECURSIVE EventsOfRows(_)
EventsOfRows(S) ==
  IF S = {} THEN <<>>
  ELSE LET r == CHOOSE x \in S : TRUE
       IN  [i \in 1..r.total |-> EventOfRow(r)] \o EventsOfRows(S \ {r})

\* an ingested upload whose rollup is built, and no run_detections yet
InitDetect ==
  /\ \E t \in DetectTables : events = InitEvents \o EventsOfRows(t)
  /\ rollup = SetToBag(Aggregate(events, UploadA)) (+) InitRollup
  /\ features = InitFeatures
  /\ findings = <<>>
  /\ job = NoJob
  /\ file = <<>>
  /\ batch_size = 1
  /\ pc = "idle"
  /\ lineno = 1
  /\ batch = <<>>
  /\ inserted = 0
  /\ bad_lines = 0
  /\ calls = <<>>
  /\ reachedDone = FALSE
  /\ runs = 0
  /\ faults = 0
  /\ rb = RbIdle
  /\ lastRb = NoRb
  /\ prevRb = NoRb
  /\ cIn = ConfIdle
  /\ cOut = NoConf
  /\ cPrev = NoPrev
  /\ det = DetIdle
  /\ cf = CfIdle
  /\ rbc = RbcIdle
  /\ flushes = <<>>

NextDetect ==
  \/ StartDetect
  \/ BurstQuery
  \/ BurstInsert
  \/ RepeatedQuery
  \/ RepeatedInsert
  \/ HostQuery
  \/ HostInsert
  \/ EndpointQuery
  \/ C2Query
  \/ PhishQuery
  \/ ExtraInsert
  \/ DetectReturn
  \/ DetectFault

SpecDetect == InitDetect /\ [][NextDetect]_vars

(***************************************************************************)
(* Properties of run_detections, checked under SpecDetect.                 *)
(***************************************************************************)
RollupRowsA == {r \in DOMAIN rollup : r.upload_id = UploadA}

\* run_detections has returned from its first invocation for the upload
FirstRunDone == det.pc = "done" /\ det.runs = 1

\* the summed total of a detector's grouping key, straight from the table
BurstSum(b, ip) ==
  SumTotals({r \in RollupRowsA : r.bucket = b /\ r.client_ip = ip}, rollup)

RepeatedSum(u, ip, c) ==
  SumTotals({r \in RollupRowsA : /\ ILike(r.action, "Blocked")
                                 /\ r.user_email = u /\ r.client_ip = ip
                                 /\ r.threat_category = c}, rollup)

HostSum(h) ==
  SumTotals({r \in RollupRowsA : ILike(r.action, "Blocked") /\ r.dest_host = h},
            rollup)

BurstKeys    == {<<r.bucket, r.client_ip>> : r \in {x \in RollupRowsA : x.client_ip # NULL}}
RepeatedKeys == {<<r.user_email, r.client_ip, r.threat_category>> :
                   r \in {x \in RollupRowsA : ILike(x.action, "Blocked")
                                               /\ x.threat_category # NULL}}
HostKeys     == {r.dest_host :
                   r \in {x \in RollupRowsA : ILike(x.action, "Blocked")
                                               /\ x.dest_host # NULL}}

FindingsNamed(p) == {i \in DOMAIN findings : findings[i].pattern_name = p}

BurstFindings(k) ==
  {i \in FindingsNamed("BURST_FROM_SINGLE_IP") :
     /\ findings[i].evidence.bucket = k[1]
     /\ findings[i].evidence.client_ip = k[2]}

RepeatedFindings(k) ==
  {i \in FindingsNamed("REPEATED_BLOCKED_THREAT_CATEGORY") :
     /\ findings[i].evidence.user_email = k[1]
     /\ findings[i].evidence.client_ip = k[2]
     /\ findings[i].evidence.threat_category = k[3]}

HostFindings(h) ==
  {i \in FindingsNamed("TOP_BLOCKED_DEST_HOST") : findings[i].evidence.dest_host = h}

\* the number of groups a detector's having clause lets through
BurstQualifying ==
  Cardinality({k \in BurstKeys : BurstSum(k[1], k[2]) >= BurstThreshold})
RepeatedQualifying ==
  Cardinality({k \in RepeatedKeys : RepeatedSum(k[1], k[2], k[3]) >= RepeatedThreshold})
HostQualifying ==
  Cardinality({h \in HostKeys : HostSum(h) >= HostThreshold})

\* C8 as stated: once the upload's first run_detections has returned, every group whose summed
\* total equals the detector's threshold (200 / 25 / 15) has a finding, and
\* every group one below the threshold has none.
C8_ThresholdBoundaryUncapped ==
  FirstRunDone =>
    /\ \A k \in BurstKeys :
         /\ BurstSum(k[1], k[2]) = BurstThreshold => BurstFindings(k) # {}
         /\ BurstSum(k[1], k[2]) = BurstThreshold - 1 => BurstFindings(k) = {}
    /\ \A k \in RepeatedKeys :
         /\ RepeatedSum(k[1], k[2], k[3]) = RepeatedThreshold
              => RepeatedFindings(k) # {}
         /\ RepeatedSum(k[1], k[2], k[3]) = RepeatedThreshold - 1
              => RepeatedFindings(k) = {}
    /\ \A h \in HostKeys :
         /\ HostSum(h) = HostThreshold => HostFindings(h) # {}
         /\ HostSum(h) = HostThreshold - 1 => HostFindings(h) = {}

\* C8, amended: once the upload's first run_detections has returned, every group whose summed
\* total equals the detector's threshold has exactly one finding provided no
\* more groups of that detector qualify than its query's limit (20 / 25 / 20),
\* and every group one below the threshold has none.
C8_ThresholdBoundary ==
  FirstRunDone =>
    /\ \A k \in BurstKeys :
         /\ BurstSum(k[1], k[2]) = BurstThreshold /\ BurstQualifying <= BurstLimit
              => Cardinality(BurstFindings(k)) = 1
         /\ BurstSum(k[1], k[2]) = BurstThreshold - 1 => BurstFindings(k) = {}
    /\ \A k \in RepeatedKeys :
         /\ RepeatedSum(k[1], k[2], k[3]) = RepeatedThreshold
              /\ RepeatedQualifying <= RepeatedLimit
              => Cardinality(RepeatedFindings(k)) = 1
         /\ RepeatedSum(k[1], k[2], k[3]) = RepeatedThreshold - 1
              => RepeatedFindings(k) = {}
    /\ \A h \in HostKeys :
         /\ HostSum(h) = HostThreshold /\ HostQualifying <= HostLimit
              => Cardinality(HostFindings(h)) = 1
         /\ HostSum(h) = HostThreshold - 1 => HostFindings(h) = {}

\* C8 witness: a finished run over a table in which each of the three
\* detectors has a group summing to exactly its threshold, which has its one
\* finding, and a group one below the threshold, which has none.
C8_Witness ==
  /\ FirstRunDone
  /\ \E k \in BurstKeys :
       /\ BurstSum(k[1], k[2]) = BurstThreshold
       /\ Cardinality({r \in RollupRowsA : r.bucket = k[1] /\ r.client_ip = k[2]}) = 2
       /\ Cardinality(BurstFindings(k)) = 1
  /\ \E k \in BurstKeys :
       BurstSum(k[1], k[2]) = BurstThreshold - 1 /\ BurstFindings(k) = {}
  /\ \E k \in RepeatedKeys :
       /\ RepeatedSum(k[1], k[2], k[3]) = RepeatedThreshold
       /\ Cardinality(RepeatedFindings(k)) = 1
  /\ \E k \in RepeatedKeys :
       /\ RepeatedSum(k[1], k[2], k[3]) = RepeatedThreshold - 1
       /\ RepeatedFindings(k) = {}
  /\ \E h \in HostKeys : HostSum(h) = HostThreshold /\ Cardinality(HostFindings(h)) = 1
  /\ \E h \in HostKeys : HostSum(h) = HostThreshold - 1 /\ HostFindings(h) = {}

\* ---- C9
ChainKeyOf(r) == <<Coalesce(r.user_email), Coalesce(r.client_ip)>>
ChainKeys == {ChainKeyOf(r) : r \in RollupRowsA}

BlockedPhishRows(k) ==
  {r \in RollupRowsA : /\ ChainKeyOf(r) = k
                       /\ ILike(r.action, "Blocked")
                       /\ ILikeAnyPrefix(r.threat_category, {"phishing"})}

BlockedPayloadRows(k) ==
  {r \in RollupRowsA : /\ ChainKeyOf(r) = k
                       /\ ILike(r.action, "Blocked")
                       /\ ILikeAnyPrefix(r.threat_category, PayloadPrefixes)}

\* the condition the specification gives for a chain finding
ChainExpected(k) ==
  /\ BlockedPhishRows(k) # {}
  /\ BlockedPayloadRows(k) # {}
  /\ SumTotals(BlockedPhishRows(k), rollup) >= PhishMin
  /\ SumTotals(BlockedPayloadRows(k), rollup) >= PayloadMin
  /\ FirstBucket(BlockedPayloadRows(k)) >= FirstBucket(BlockedPhishRows(k))
  /\ FirstBucket(BlockedPayloadRows(k))
       <= FirstBucket(BlockedPhishRows(k)) + PhishWindowMinutes * 60

ChainFindings(k) ==
  {i \in FindingsNamed("PHISH_TO_PAYLOAD_CHAIN_SUSPECTED") :
     /\ findings[i].evidence.entity.user_email = k[1]
     /\ findings[i].evidence.entity.client_ip = k[2]}

\* C9: once the upload's first run_detections has returned, a (user, client IP) pair has a
\* PHISH_TO_PAYLOAD_CHAIN_SUSPECTED finding, and then exactly one, if and only
\* if phishing hits >= 2, payload hits >= 2, and the first payload bucket lies
\* at or after the first phishing bucket and at most 30 minutes after it.
C9_PhishChainIff ==
  FirstRunDone =>
    \A k \in ChainKeys :
      IF ChainExpected(k) THEN Cardinality(ChainFindings(k)) = 1
      ELSE ChainFindings(k) = {}

(***************************************************************************)
(* Properties of the job-status record, checked under Spec.                *)
(***************************************************************************)
\* the lines read so far that the specification calls bad (malformed JSON or
\* JSON that is not a vendor record)
SpecBadSeen == Cardinality({i \in 1..(lineno - 1) : SpecMalformed(file[i])})

\* the lines read so far on which the try block of the loop raised
RaisedSeen == Cardinality({i \in 1..(lineno - 1) :
                             file[i].json # "blank" /\ LineRaises(file[i])})

\* C11: every update of the job-status record (after a batch flush, and at
\* "done" or "failed") writes inserted_events equal to the number of events
\* the run has committed so far and bad_lines equal to the number of bad lines
\* read so far.
C11_ProgressVisibility ==
  [][(runs' = 1 /\ job' # job /\ job'.status \in {"running", "done", "failed"})
       => /\ job'.inserted_events = Cardinality(EventsOf(events', UploadA))
          /\ job'.bad_lines = SpecBadSeen']_vars

\* The same with "bad line" read as "line the run rejected": the part of C11
\* that does not depend on how lines are classified.
C11_CountersAsRun ==
  [][(runs' = 1 /\ job' # job /\ job'.status \in {"running", "done", "failed"})
       => /\ job'.inserted_events = Cardinality(EventsOf(events', UploadA))
          /\ job'.bad_lines = RaisedSeen']_vars

\* the rows of the first k lines of the file that the loop appended to a batch
RECURSIVE RowsOfLines(_)
RowsOfLines(k) ==
  IF k = 0 THEN <<>>
  ELSE IF file[k].json = "blank" \/ LineRaises(file[k]) THEN RowsOfLines(k - 1)
  ELSE Append(RowsOfLines(k - 1), RowOf(file[k], UploadA))

\* the rows of the batches committed so far: all rows appended so far but
\* those still in the batch
CommittedRows ==
  LET all == RowsOfLines(lineno - 1)
  IN  SubSeq(all, 1, Len(all) - Len(batch))

\* a flush failed: the handler has run and the batch was never cleared
FlushFailed == pc = "returned" /\ batch # <<>>

OneRunCount ==
    Min(BurstQualifying, BurstLimit)
  + Min(RepeatedQualifying, RepeatedLimit)
  + Min(HostQualifying, HostLimit)
  + Min(Cardinality(EndpointGroups(rollup, UploadA)), EndpointLimit)
  + Min(Cardinality(C2Groups(rollup, UploadA)), C2Limit)
  + Min(Cardinality(PhishGroups(rollup, UploadA)), PhishLimit)

SameFinding(f, g) ==
  /\ f.upload_id = g.upload_id
  /\ f.pattern_name = g.pattern_name
  /\ f.severity = g.severity
  /\ f.confidence = g.confidence
  /\ f.evidence = g.evidence

\* every stored finding stays as it is; a step adds at most one at the end
FindingsOnlyAppended ==
  [][\/ findings' = findings
     \/ /\ Len(findings') = Len(findings) + 1
        /\ SubSeq(findings', 1, Len(findings)) = findings]_vars

\* after k complete runs: k times the findings of one run, each finding of a
\* run present once per run, all ids distinct
RunsMultiplyFindings ==
  (det.pc = "done" /\ faults = 0) =>
    /\ Len(findings) = det.runs * OneRunCount
    /\ \A i \in DOMAIN findings :
         Cardinality({j \in DOMAIN findings : SameFinding(findings[i], findings[j])})
           = det.runs
    /\ \A i, j \in DOMAIN findings : i # j => findings[i].id # findings[j].id

\* C13: run_detections never updates or deletes a stored finding, and after k
\* complete runs over an unchanged rollup the upload holds k times the
\* findings of one run, each with its own id.
C13_AppendOnly == FindingsOnlyAppended /\ []RunsMultiplyFindings

\* C13 witness: the second run has returned and the upload holds twice the
\* (non-empty) findings of one run.
C13_Witness ==
  /\ det.pc = "done"
  /\ det.runs = 2
  /\ faults = 0
  /\ OneRunCount >= 2
  /\ Len(findings) = 2 * OneRunCount

(***************************************************************************)
(* SpecFeat: compute_features invoked by concurrent callers for UploadA    *)
(* while another ingest run of the upload commits batches.                 *)
(***************************************************************************)
MaxFeatCalls  == 3   \* compute_features invocations in one behaviour
MaxFeatEvents == 2   \* events committed by the concurrent ingest run

FeatUnchanged ==
  /\ UNCHANGED <<rollup, findings, job>>
  /\ UNCHANGED <<file, batch_size, pc, lineno, batch, inserted, bad_lines, calls,
                 reachedDone, runs>>
  /\ UNCHANGED <<rbVars, confVars, det, rbc, flushes>>

\* compute_features(upload_id) is entered: line 20, connect_db()
FeatCall(c) ==
  /\ cf.proc[c].pc = "idle"
  /\ cf.calls < MaxFeatCalls
  /\ cf' = [cf EXCEPT !.proc[c].pc = "select", !.calls = cf.calls + 1]
  /\ UNCHANGED <<events, features, faults>>
  /\ FeatUnchanged

\* lines 23-105: the selects over events and the stats document
FeatSelect(c) ==
  /\ cf.proc[c].pc = "select"
  /\ cf' = [cf EXCEPT !.proc[c].pc = "upsert",
                      !.proc[c].stats = Stats(events, UploadA)]
  /\ UNCHANGED <<events, features, faults>>
  /\ FeatUnchanged

\* lines 108-117: the upsert statement; it waits while another transaction
\* holds the upload's row (or its key) uncommitted
FeatUpsert(c) ==
  /\ cf.proc[c].pc = "upsert"
  /\ cf.lock = "free"
  /\ cf' = [cf EXCEPT !.proc[c].pc = "commit", !.lock = c]
  /\ UNCHANGED <<events, features, faults>>
  /\ FeatUnchanged

\* lines 118-120: conn.commit(); return stats
FeatCommit(c) ==
  /\ cf.proc[c].pc = "commit"
  /\ features' = Upsert(features, UploadA, cf.proc[c].stats)
  /\ cf' = [cf EXCEPT !.proc[c].pc = "idle", !.lock = "free",
                      !.completed = Append(cf.completed, cf.proc[c].stats)]
  /\ UNCHANGED <<events, faults>>
  /\ FeatUnchanged

\* a storage failure at any statement: the transaction is rolled back
FeatFault(c) ==
  /\ cf.proc[c].pc \in {"select", "upsert", "commit"}
  /\ faults < MaxFaults
  /\ faults' = faults + 1
  /\ cf' = [cf EXCEPT !.proc[c].pc = "idle",
                      !.lock = IF cf.lock = c THEN "free" ELSE cf.lock]
  /\ UNCHANGED <<events, features>>
  /\ FeatUnchanged

\* ingest.py lines 68-69: a run_ingest_job of the upload commits a batch
FeatIngestCommit ==
  /\ cf.appended < MaxFeatEvents
  /\ \E line \in {LineOk1, LineOk2, LineNoTs} :
       events' = Append(events, RowOf(line, UploadA))
  /\ cf' = [cf EXCEPT !.appended = cf.appended + 1]
  /\ UNCHANGED <<features, faults>>
  /\ FeatUnchanged

NextFeat ==
  \/ \E c \in Callers : FeatCall(c)
  \/ \E c \in Callers : FeatSelect(c)
  \/ \E c \in Callers : FeatUpsert(c)
  \/ \E c \in Callers : FeatCommit(c)
  \/ \E c \in Callers : FeatFault(c)
  \/ FeatIngestCommit

\* no ingest run is under way: the file was read whole
InitFeat == Init /\ file = <<>> /\ batch_size = 1

SpecFeat == InitFeat /\ [][NextFeat]_vars

\* the rows of upload_features for an upload
FeatureRows(u) == {i \in DOMAIN features : features[i].upload_id = u}

\* C14: upload_features holds at most one row per upload, and once a
\* compute_features call for the upload has completed, that row carries the
\* stats of the call that completed last.
C14_OneRowLatestWins ==
  /\ \A u \in {UploadA, UploadB} : Cardinality(FeatureRows(u)) <= 1
  /\ cf.completed # <<>> =>
       \E i \in FeatureRows(UploadA) :
         features[i].stats = cf.completed[Len(cf.completed)]
  /\ cf.completed = <<>> => FeatureRows(UploadA) = {}

\* C14 witness: two overlapping calls have completed with different stats; the
\* one that committed last had read before an event was committed, and its
\* (older) stats are the ones the row carries.
C14_Witness ==
  /\ Len(cf.completed) = 2
  /\ cf.completed[1] # cf.completed[2]
  /\ cf.completed[2] # Stats(events, UploadA)
  /\ cf.completed[1] = Stats(events, UploadA)
  /\ \E i \in FeatureRows(UploadA) : features[i].stats = cf.completed[2]

(***************************************************************************)
(* Properties of the persisted confidence, checked under SpecDetect.       *)
(***************************************************************************)
\* an identifier the evidence payload carries with an informative value,
\* at its top level or inside its "entity" object
Carries(ev, k) == Informative(ev[k]) \/ Informative(ev.entity[k])

CarriedIdentifiers(ev) ==
    (IF Carries(ev, "user_email") THEN 1 ELSE 0)
  + (IF Carries(ev, "client_ip") THEN 1 ELSE 0)
  + (IF Carries(ev, "dest_host") THEN 1 ELSE 0)
  + (IF Informative(ev.threat_category) THEN 1 ELSE 0)

\* the confidence with +0.03 for every identifier the payload carries
ConfidenceWithCarried(p, sev, ev) ==
  Clamp(Pct(SeverityBase(sev)) + Pct(3 * CarriedIdentifiers(ev)) + PatternBoost(p, ev),
        Pct(10), Pct(99))

\* C15: the confidence of every finding, of any of the six detectors,
\* includes +0.03 for each of user email, client IP, destination host and
\* threat category that its evidence payload carries with a non-null,
\* non-sentinel value.
C15_GenericBoostAllDetectors ==
  \A i \in DOMAIN findings :
    findings[i].confidence
      = ConfidenceWithCarried(findings[i].pattern_name, findings[i].severity,
                              findings[i].evidence)

\* The same for the three detectors whose payload holds the identifiers at
\* its top level.
C15_GenericBoostTopLevel ==
  \A i \in DOMAIN findings :
    findings[i].pattern_name \in {"BURST_FROM_SINGLE_IP",
                                  "REPEATED_BLOCKED_THREAT_CATEGORY",
                                  "TOP_BLOCKED_DEST_HOST"}
      => findings[i].confidence
           = ConfidenceWithCarried(findings[i].pattern_name, findings[i].severity,
                                   findings[i].evidence)

(***************************************************************************)
(* The phish-chain time-delta reward, checked under SpecConf.              *)
(***************************************************************************)
ChainDelta(ev) == ev.first_payload.t - ev.first_phish.t

\* a straight line from +0.10 at delta 0 to 0 at the end of the 30-minute
\* window, and flat outside it
LinearBonus(d) ==
  IF d <= 0 THEN Pct(10)
  ELSE IF d >= PhishWindowMinutes * 60 THEN 0
  ELSE 10 * ((Pct(1) * (PhishWindowMinutes * 60 - d)) \div (PhishWindowMinutes * 60))

ChainCall ==
  /\ cOut.done
  /\ cIn.pattern = "PHISH_TO_PAYLOAD_CHAIN_SUSPECTED"
  /\ cIn.evidence.first_phish.kind = "datetime"
  /\ cIn.evidence.first_payload.kind = "datetime"

\* C16: for a chain finding with both timestamps the confidence is the base,
\* the generic boost and the two hit ratios plus a reward that falls linearly
\* from +0.10 at delta 0 to 0 at the end of the window, and a call with a
\* longer delta never returns more than the call with the shorter one.
C16_ChainDeltaReward ==
  /\ ChainCall =>
       cOut.conf
         = Clamp(Pct(SeverityBase(cIn.severity)) + Pct(GenericBoost(cIn.evidence))
                   + 14 * RatioScore(cIn.evidence.phish_hits, PhishMin, 8)
                   + 16 * RatioScore(cIn.evidence.payload_hits, PayloadMin, 10)
                   + LinearBonus(ChainDelta(cIn.evidence)),
                 Pct(10), Pct(99))
  /\ (cPrev.valid /\ cPrev.field = "first_payload") => cOut.conf <= cPrev.conf

\* C16 witness: a call at delta 0 got the full +0.10, and the same call with
\* the payload inside the window but later got strictly less.
C16_Witness ==
  /\ cPrev.valid
  /\ cPrev.field = "first_payload"
  /\ ChainDelta(cPrev.evidence) = 0
  /\ ChainDelta(cIn.evidence) > 0
  /\ ChainDelta(cIn.evidence) < PhishWindowMinutes * 60
  /\ cPrev.conf = RawConfidence(cPrev.pattern, cPrev.severity, cPrev.evidence)
  /\ ChainBonus(cPrev.evidence) = Pct(10)
  /\ cOut.conf < cPrev.conf

(***************************************************************************)
(* SpecIso: the whole pipeline for UploadA (re-ingest, features, rollup,   *)
(* then detection) beside the stored data of UploadB.                      *)
(***************************************************************************)
\* the rollup of the earlier ingest of UploadA: enough for one finding of the
\* repeated-category, destination-host and phish-chain detectors
IsoTable ==
  {R(0, "u1", "10.0.0.5", "h1", "Blocked", "Malware", RepeatedThreshold),
   R(0, "u1", "10.0.0.5", "mail.example", "Blocked", "Phishing", PhishMin)}

\* a finding stored by an earlier detection run for UploadB
FindingB ==
  [id |-> 1, upload_id |-> UploadB, pattern_name |-> "TOP_BLOCKED_DEST_HOST",
   severity |-> "medium",
   confidence |-> CalcConfidence("TOP_BLOCKED_DEST_HOST", "medium",
                    [NoEvidence EXCEPT !.dest_host = "h1", !.blocked_hits = 15]),
   evidence |-> [NoEvidence EXCEPT !.dest_host = "h1", !.blocked_hits = 15]]

IsoFiles == {<<>>, <<LineOk1>>, <<LineOk2, LineBadTs>>, <<LineArray, LineOk1>>}

InitIso ==
  /\ events = InitEvents \o EventsOfRows(IsoTable)
  /\ rollup = SetToBag(Aggregate(events, UploadA)) (+) InitRollup
  /\ features = Upsert(InitFeatures, UploadA, Stats(events, UploadA))
  /\ findings = <<FindingB>>
  /\ job = NoJob
  /\ file \in IsoFiles
  /\ batch_size \in 1..MaxBatchSize
  /\ pc = "idle"
  /\ lineno = 1
  /\ batch = <<>>
  /\ inserted = 0
  /\ bad_lines = 0
  /\ calls = <<>>
  /\ reachedDone = FALSE
  /\ runs = 0
  /\ faults = 0
  /\ rb = RbIdle
  /\ lastRb = NoRb
  /\ prevRb = NoRb
  /\ cIn = ConfIdle
  /\ cOut = NoConf
  /\ cPrev = NoPrev
  /\ det = DetIdle
  /\ cf = CfIdle
  /\ rbc = RbcIdle
  /\ flushes = <<>>

\* the pipeline runs in order: ingest runs and rebuilds of the upload come
\* first, detection is started once they have ended
StartIngestBeforeDetect ==
  /\ det.pc = "idle"
  /\ StartIngest

CallRollupDirectBeforeDetect ==
  /\ det.pc = "idle"
  /\ CallRollupDirect

StartDetectAfterIngest ==
  /\ pc \in {"returned", "raised"}
  /\ rb.pc = "idle"
  /\ StartDetect

NextIso ==
  \/ StartIngestBeforeDetect
  \/ SetRunningFirst
  \/ OpenFile
  \/ ReadLine
  \/ FlushBatch
  \/ SetRunning
  \/ EndOfInput
  \/ FinalFlush
  \/ SetDone
  \/ ComputeFeatures
  \/ ComputeFeaturesFault
  \/ CallRollup
  \/ IngestFault
  \/ HandleException
  \/ HandleExceptionFault
  \/ CallRollupDirectBeforeDetect
  \/ RollupDelete
  \/ RollupInsert
  \/ RollupCommit
  \/ RollupFault
  \/ StartDetectAfterIngest
  \/ BurstQuery
  \/ BurstInsert
  \/ RepeatedQuery
  \/ RepeatedInsert
  \/ HostQuery
  \/ HostInsert
  \/ EndpointQuery
  \/ C2Query
  \/ PhishQuery
  \/ ExtraInsert
  \/ DetectReturn
  \/ DetectFault

SpecIso == InitIso /\ [][NextIso]_vars

\* the rows of a table (a sequence) that belong to an upload, in order
OfUpload(table, u) == SelectSeq(table, LAMBDA x : x.upload_id = u)

\* C17: whatever run_ingest_job, compute_features, build_minute_rollup and
\* run_detections do for UploadA, the events, rollup rows, features row and
\* findings of UploadB stay exactly as they were, and every other row of the
\* four tables carries upload identifier UploadA.
C17_UploadIsolation ==
  /\ OfUpload(events, UploadB) = InitEvents
  /\ RowsOfUpload(rollup, UploadB) = InitRollup
  /\ OfUpload(features, UploadB) = InitFeatures
  /\ OfUpload(findings, UploadB) = <<FindingB>>
  /\ \A i \in DOMAIN events : events[i].upload_id \in {UploadA, UploadB}
  /\ \A r \in DOMAIN rollup : r.upload_id \in {UploadA, UploadB}
  /\ \A i \in DOMAIN features : features[i].upload_id \in {UploadA, UploadB}
  /\ \A i \in DOMAIN findings : findings[i].upload_id \in {UploadA, UploadB}

\* C17 witness: a re-ingest of UploadA has inserted an event, recomputed the
\* features, rebuilt the rollup and ended "done", and a detection run has then
\* stored findings for UploadA.
C17_Witness ==
  /\ pc = "returned"
  /\ job.status = "done"
  /\ inserted >= 1
  /\ lastRb.valid
  /\ \E i \in DOMAIN features :
       features[i].upload_id = UploadA /\ features[i].stats = Stats(events, UploadA)
  /\ det.pc = "done"
  /\ Len(OfUpload(findings, UploadA)) >= 3

\* ---- C18
EndpointKeys == ChainKeys

\* the blocked rollup rows with a threat category of a (user, client IP) pair
EndpointRows(k) ==
  {r \in RollupRowsA : /\ ChainKeyOf(r) = k
                       /\ ILike(r.action, "Blocked")
                       /\ r.threat_category # NULL}

EndpointBreadth(k) == Cardinality({r.threat_category : r \in EndpointRows(k)})
EndpointVolume(k)  == SumTotals(EndpointRows(k), rollup)

EndpointExpected(k) ==
  /\ EndpointBreadth(k) >= EndpointMinCategories
  /\ EndpointVolume(k) >= EndpointMinBlocks

EndpointQualifying == Cardinality({k \in EndpointKeys : EndpointExpected(k)})

EndpointFindings(k) ==
  {i \in FindingsNamed("ENDPOINT_COMPROMISE_MULTI_CATEGORY") :
     /\ findings[i].evidence.entity.user_email = k[1]
     /\ findings[i].evidence.entity.client_ip = k[2]}

\* the finding of a qualifying pair: severity by volume, confidence from that
\* severity
EndpointFindingRight(k, i) ==
  /\ findings[i].severity
       = IF EndpointVolume(k) >= EndpointCritical THEN "critical" ELSE "high"
  /\ findings[i].evidence.blocked_hits = EndpointVolume(k)
  /\ findings[i].evidence.distinct_threat_categories = EndpointBreadth(k)
  /\ findings[i].confidence
       = CalcConfidence("ENDPOINT_COMPROMISE_MULTI_CATEGORY", findings[i].severity,
                        findings[i].evidence)

\* C18 as stated: once the upload's first run_detections has returned, a
\* (user, client IP) pair has an ENDPOINT_COMPROMISE_MULTI_CATEGORY finding
\* exactly when its blocked rows with a threat category span >= 3 categories
\* and sum to >= 12; the severity is "critical" from 40 blocked hits on and
\* "high" below, and the stored confidence is computed from that severity.
C18_EndpointIffUncapped ==
  FirstRunDone =>
    \A k \in EndpointKeys :
      IF EndpointExpected(k)
      THEN /\ Cardinality(EndpointFindings(k)) = 1
           /\ \A i \in EndpointFindings(k) : EndpointFindingRight(k, i)
      ELSE EndpointFindings(k) = {}

\* C18, amended: the same, where a qualifying pair is promised its finding
\* only if no more than 10 pairs of the upload qualify.
C18_EndpointIff ==
  FirstRunDone =>
    \A k \in EndpointKeys :
      /\ (EndpointExpected(k) /\ EndpointQualifying <= EndpointLimit)
           => Cardinality(EndpointFindings(k)) = 1
      /\ ~EndpointExpected(k) => EndpointFindings(k) = {}
      /\ \A i \in EndpointFindings(k) : EndpointFindingRight(k, i)

\* C18 witness: a pair with exactly 3 categories and 40 blocked hits has its
\* one finding, and it is critical.
C18_Witness ==
  /\ FirstRunDone
  /\ \E k \in EndpointKeys :
       /\ EndpointBreadth(k) = EndpointMinCategories
       /\ EndpointVolume(k) = EndpointCritical
       /\ Cardinality(EndpointFindings(k)) = 1
       /\ \A i \in EndpointFindings(k) : findings[i].severity = "critical"

\* ---- C19
Patterns == {"BURST_FROM_SINGLE_IP", "REPEATED_BLOCKED_THREAT_CATEGORY",
             "TOP_BLOCKED_DEST_HOST", "ENDPOINT_COMPROMISE_MULTI_CATEGORY",
             "C2_BEACONING_SUSPECTED", "PHISH_TO_PAYLOAD_CHAIN_SUSPECTED"}

LimitOf(p) ==
  CASE p = "BURST_FROM_SINGLE_IP"               -> BurstLimit
    [] p = "REPEATED_BLOCKED_THREAT_CATEGORY"   -> RepeatedLimit
    [] p = "TOP_BLOCKED_DEST_HOST"              -> HostLimit
    [] p = "ENDPOINT_COMPROMISE_MULTI_CATEGORY" -> EndpointLimit
    [] p = "C2_BEACONING_SUSPECTED"             -> C2Limit
    [] OTHER                                    -> PhishLimit

\* the metric a detector's query orders by, read from a finding's evidence
MetricOf(p, ev) ==
  CASE p = "BURST_FROM_SINGLE_IP"             -> ev.hits_in_minute
    [] p = "PHISH_TO_PAYLOAD_CHAIN_SUSPECTED" -> ev.payload_hits
    [] OTHER                                  -> ev.blocked_hits

\* the evidence of every group of the upload that passes a detector's test
QualifyingEvidenceIn(table, p) ==
  CASE p = "BURST_FROM_SINGLE_IP" ->
         {BurstEvidence(g[2]) : g \in BurstGroups(table, UploadA)}
    [] p = "REPEATED_BLOCKED_THREAT_CATEGORY" ->
         {RepeatedEvidence(g[2]) : g \in RepeatedGroups(table, UploadA)}
    [] p = "TOP_BLOCKED_DEST_HOST" ->
         {HostEvidence(g[2]) : g \in HostGroups(table, UploadA)}
    [] p = "ENDPOINT_COMPROMISE_MULTI_CATEGORY" ->
         {EndpointFinding(g[2]).evidence : g \in EndpointGroups(table, UploadA)}
    [] p = "C2_BEACONING_SUSPECTED" ->
         {C2Finding(g[2]).evidence : g \in C2Groups(table, UploadA)}
    [] OTHER ->
         {PhishFinding(g[2]).evidence : g \in PhishGroups(table, UploadA)}

QualifyingEvidence(p) == QualifyingEvidenceIn(rollup, p)

KeptEvidence(p) == {findings[i].evidence : i \in FindingsNamed(p)}

\* every run adds at most the detector's limit
CapPerRun ==
  \A p \in Patterns : Cardinality(FindingsNamed(p)) <= det.runs * LimitOf(p)

\* after the first run, no group that was left out has a higher metric than
\* one that was kept
KeptAreHighest ==
  FirstRunDone =>
    \A p \in Patterns :
      /\ KeptEvidence(p) \subseteq QualifyingEvidence(p)
      /\ \A d \in QualifyingEvidence(p) \ KeptEvidence(p) :
           \A k \in KeptEvidence(p) : MetricOf(p, d) <= MetricOf(p, k)

\* C19: one run_detections inserts at most 20 BURST_FROM_SINGLE_IP, 25
\* REPEATED_BLOCKED_THREAT_CATEGORY, 20 TOP_BLOCKED_DEST_HOST, 10
\* ENDPOINT_COMPROMISE_MULTI_CATEGORY, 15 C2_BEACONING_SUSPECTED and 10
\* PHISH_TO_PAYLOAD_CHAIN_SUSPECTED findings, and when more groups qualify the
\* kept ones have the highest ranking metric.
C19_PerDetectorCap == CapPerRun /\ KeptAreHighest

\* the detector has kept exactly its limit and left a qualifying group out
Capped(p) ==
  /\ Cardinality(KeptEvidence(p)) = LimitOf(p)
  /\ QualifyingEvidence(p) \ KeptEvidence(p) # {}

\* C19 witness: a finished first run over a table where some detector had one
\* more qualifying group than its limit.
C19_Witness == FirstRunDone /\ \E p \in Patterns : Capped(p)

\* ---- C20
FirstRunEnded == det.runs = 1 /\ det.pc \in {"done", "raised"}

\* the detector's findings are all there: one per qualifying group, up to its
\* limit
Complete(p) ==
  Cardinality(KeptEvidence(p)) = Min(LimitOf(p), Cardinality(QualifyingEvidence(p)))

\* C20: when the upload's first run_detections has ended, by returning or by
\* an exception of _insert_finding, only the detector whose insert failed is
\* short of findings: the number of detectors with missing findings is at
\* most the number of failed inserts.
C20_FailureIsolated ==
  FirstRunEnded =>
    Cardinality({p \in Patterns : ~Complete(p)}) <= faults

\* a run that returned is complete for every detector
C20_ReturnedRunComplete ==
  FirstRunDone => \A p \in Patterns : Complete(p)

(***************************************************************************)
(* Terminal status, line classification and downstream freshness (Spec).   *)
(***************************************************************************)
RunLeft == pc \in {"returned", "raised"}

\* C21: once run_ingest_job has been left, the job-status record reads "done"
\* or "failed", and the function was left by returning, not by an exception.
C21_NeverStuck ==
  RunLeft => /\ pc = "returned"
             /\ job.status \in {"done", "failed"}

\* a run that returns has left a terminal status
C21_ReturnedIsTerminal ==
  pc = "returned" => job.status \in {"done", "failed"}

\* the lines of the file that are JSON but not a JSON object
NonObjectLines == {i \in DOMAIN file : file[i].json = "array"}
NotJsonLines   == {i \in DOMAIN file : file[i].json = "invalid"}

EventOfLine(i) == \E k \in EventsOf(events, UploadA) : events[k].raw = file[i]

\* C23: after a run without storage faults, no event was inserted for a line
\* holding JSON that is not an object, and every such line was counted in
\* bad_lines.
C23_NonObjectIsBad ==
  RunEndedWithoutFault
    => /\ \A i \in NonObjectLines : ~EventOfLine(i)
       /\ job.bad_lines >= Cardinality(NonObjectLines)

\* the same for lines that are not JSON at all
C23_NotJsonIsBad ==
  RunEndedWithoutFault
    => /\ \A i \in NotJsonLines : ~EventOfLine(i)
       /\ job.bad_lines >= Cardinality(NotJsonLines)

\* the moves of one job's status that the lifecycle allows
AllowedMove(a, b) ==
  \/ a = "queued"  /\ b \in {"running", "failed"}
  \/ a = "running" /\ b \in {"running", "done", "failed"}

\* C24: every write to the status record of one job is a move queued ->
\* running -> (done | failed); nothing is written after "done" or "failed".
C24_TerminalStatus ==
  [][(runs' = runs /\ job' # job) => AllowedMove(job.status, job'.status)]_vars

\* nothing is written to the record of a job after "failed"
C24_FailedIsTerminal ==
  [][(runs' = runs /\ job.status = "failed") => job' = job]_vars

\* upload_features and event_rollup_minute reflect the events of the upload
DerivedFresh ==
  /\ \E i \in DOMAIN features :
       /\ features[i].upload_id = UploadA
       /\ features[i].stats = Stats(events, UploadA)
  /\ RowsOfUpload(rollup, UploadA) = SetToBag(Aggregate(events, UploadA))

\* C25: whenever the job-status record reads "done", the upload's features
\* row and rollup rows reflect all events of the upload.
C25_DoneImpliesDerived == job.status = "done" => DerivedFresh

\* the same once the run has returned
C25_ReturnedDoneImpliesDerived ==
  (pc = "returned" /\ job.status = "done") => DerivedFresh

(***************************************************************************)
(* The value returned by run_detections (SpecDetect).                      *)
(***************************************************************************)
CreatedIds  == {det.created[i] : i \in DOMAIN det.created}
InsertedIds == {findings[i].id : i \in DOMAIN findings}

InlinePatterns == {"BURST_FROM_SINGLE_IP", "REPEATED_BLOCKED_THREAT_CATEGORY",
                   "TOP_BLOCKED_DEST_HOST"}

InlineIds == {findings[i].id : i \in {j \in DOMAIN findings :
                                        findings[j].pattern_name \in InlinePatterns}}

\* C26: when the upload's first run_detections returns, created_finding_ids
\* holds the id of every finding the run inserted, whichever of the six
\* detectors produced it, and no other id.
C26_CreatedIdsComplete == FirstRunDone => CreatedIds = InsertedIds

\* the ids of the burst, repeated-category and blocked-host findings are
\* returned, and nothing that was not inserted
C26_CreatedIdsInline ==
  FirstRunDone => /\ CreatedIds = InlineIds
                  /\ Len(det.created) = Cardinality(CreatedIds)

(***************************************************************************)
(* Batching (Spec).                                                        *)
(***************************************************************************)
Ceil(n, b) == (n + b - 1) \div b

\* the flushes of a run over n records with batch size b: Ceil(n, b) of them,
\* none empty, all of b records but the last, which holds the remainder
BatchedAs(n, b) ==
  /\ Len(flushes) = Ceil(n, b)
  /\ \A i \in DOMAIN flushes :
       /\ flushes[i] > 0
       /\ i < Len(flushes) => flushes[i] = b
       /\ i = Len(flushes) => flushes[i] = IF n % b = 0 THEN b ELSE n % b

\* the lines of the file that the loop appended to a batch
NAccepted == Len(RowsOfLines(Len(file)))

\* C22: a run without storage faults over a file with N valid lines and batch
\* size B has made exactly ceil(N/B) flushes, each of B records but the last,
\* which holds the N mod B remaining ones when that is not zero; no flush is
\* empty, whatever bad or blank lines lie between the valid ones.
C22_Batching == RunEndedWithoutFault => BatchedAs(NValid, batch_size)

\* the same with N the number of lines the loop accepted
C22_BatchingAsRun == RunEndedWithoutFault => BatchedAs(NAccepted, batch_size)

(***************************************************************************)
(* The inserted_events counter (Spec).                                     *)
(***************************************************************************)
\* the events of the upload committed since the behaviour began
DurablyCommitted == Len(events) - Len(InitEvents)

\* the events the current run has committed
RunCommitted == Len(CommittedRows)

InsertedNeverAhead ==
  /\ inserted <= DurablyCommitted
  /\ job.inserted_events <= inserted
  /\ job.inserted_events <= DurablyCommitted
  /\ inserted <= RunCommitted

InsertedNonDecreasing ==
  [][runs' = runs => job'.inserted_events >= job.inserted_events]_vars

\* C28: in every state of an ingestion run, inserted_events as last written
\* to the job-status record never exceeds the number of events the run has
\* durably committed, and over the run it never decreases; the local counter
\* is never ahead of the commits either.
C28_InsertedCounter == []InsertedNeverAhead /\ InsertedNonDecreasing

\* C28 witness: a batch was committed and reported, the next flush failed,
\* and the handler wrote the count of the committed batch only.
C28_Witness ==
  /\ pc = "returned"
  /\ job.status = "failed"
  /\ flushes = <<1>>
  /\ batch # <<>>
  /\ job.inserted_events = 1
  /\ DurablyCommitted = 1

(***************************************************************************)
(* SpecReingest: POST /ingest/{upload_id} called again for an upload whose *)
(* file was ingested before.                                               *)
(***************************************************************************)
MaxReingests == 2   \* re-ingest triggers after the first ingestion

ReingestFiles == {<<>>, <<LineOk1>>, <<LineOk1, LineOk2>>, <<LineBlank, LineNoTs>>,
                  <<LineBadTs, LineOk1>>, <<LineArray>>, <<LineInvalid, LineOk2>>}

InitReingest == Init /\ file \in ReingestFiles

\* main.py lines 164-199: a new job row with status "queued" for the same
\* upload and stored file, and run_ingest_job scheduled again
StartReingest ==
  /\ pc \in {"idle", "returned", "raised"}
  /\ rb.pc = "idle"
  /\ runs < 1 + MaxReingests
  /\ runs' = runs + 1
  /\ job' = MkJob("queued", 0, 0, NULL)
  /\ pc' = "queued"
  /\ lineno' = 1
  /\ batch' = <<>>
  /\ inserted' = 0
  /\ flushes' = <<>>
  /\ bad_lines' = 0
  /\ calls' = <<>>
  /\ reachedDone' = FALSE
  /\ UNCHANGED <<events, rollup, features, findings, file, batch_size, faults>>
  /\ UNCHANGED <<rbVars, confVars, det, cf, rbc>>

NextReingest ==
  \/ StartReingest
  \/ SetRunningFirst
  \/ OpenFile
  \/ ReadLine
  \/ FlushBatch
  \/ SetRunning
  \/ EndOfInput
  \/ FinalFlush
  \/ SetDone
  \/ ComputeFeatures
  \/ ComputeFeaturesFault
  \/ CallRollup
  \/ IngestFault
  \/ HandleException
  \/ HandleExceptionFault
  \/ RollupDelete
  \/ RollupInsert
  \/ RollupCommit
  \/ RollupFault

SpecReingest == InitReingest /\ [][NextReingest]_vars

\* events is only appended to
EventsOnlyAppended ==
  [][/\ Len(events') >= Len(events)
     /\ SubSeq(events', 1, Len(events)) = events]_vars

\* every run so far has completed without a storage fault
AllRunsCompleted == pc = "returned" /\ faults = 0 /\ job.status = "done"

\* k completed runs over the file leave k * N events of the upload, N the
\* number of valid lines of the file
ReingestMultiplies ==
  AllRunsCompleted => Cardinality(EventsOf(events, UploadA)) = runs * NValid

\* C29: a run of run_ingest_job never deletes or modifies an event, and after
\* k completed runs over the same file of N valid lines the upload has k * N
\* events.
C29_AppendOnlyReingest == EventsOnlyAppended /\ []ReingestMultiplies

\* the same with N the number of lines the loop accepted
C29_AppendOnlyAsRun ==
  /\ EventsOnlyAppended
  /\ [](AllRunsCompleted
          => Cardinality(EventsOf(events, UploadA)) = runs * NAccepted)

(***************************************************************************)
(* SpecRace: build_minute_rollup(upload_id) invoked by two callers at      *)
(* once (two run_ingest_job runs of the upload reaching line 82).  Each    *)
(* builder has its own connection and transaction; the isolation level is  *)
(* PostgreSQL's default, READ COMMITTED: a statement sees the rows         *)
(* committed before it started and the transaction's own writes, and a     *)
(* delete waits for a row that another open transaction has deleted.       *)
(***************************************************************************)
MaxRaceCalls == 2   \* build_minute_rollup invocations in one behaviour

RaceEvents ==
  {InitEvents \o evs : evs \in {<<RowOf(LineOk1, UploadA)>>,
                                <<RowOf(LineOk1, UploadA), RowOf(LineOk2, UploadA)>>,
                                <<RowOf(LineOk1, UploadA), RowOf(LineOk1, UploadA)>>,
                                <<RowOf(LineNoTs, UploadA), RowOf(LineOk2, UploadA)>>,
                                <<[RowOf(LineOk1, UploadA) EXCEPT !.dest_host = NULL]>>}}

\* the upload's events are ingested; its rollup was never built, or was built
\* when the upload had its first event only, or is up to date
InitRace ==
  /\ events \in RaceEvents
  /\ rollup \in {InitRollup,
                 SetToBag(Aggregate(SubSeq(events, 1, Len(InitEvents) + 1), UploadA))
                   (+) InitRollup,
                 SetToBag(Aggregate(events, UploadA)) (+) InitRollup}
  /\ features = InitFeatures
  /\ findings = <<>>
  /\ job = NoJob
  /\ file = <<>>
  /\ batch_size = 1
  /\ pc = "idle"
  /\ lineno = 1
  /\ batch = <<>>
  /\ inserted = 0
  /\ flushes = <<>>
  /\ bad_lines = 0
  /\ calls = <<>>
  /\ reachedDone = FALSE
  /\ runs = 0
  /\ faults = 0
  /\ rb = RbIdle
  /\ lastRb = NoRb
  /\ prevRb = NoRb
  /\ cIn = ConfIdle
  /\ cOut = NoConf
  /\ cPrev = NoPrev
  /\ det = DetIdle
  /\ cf = CfIdle
  /\ rbc = RbcIdle

RaceUnchanged ==
  /\ UNCHANGED <<events, features, findings, job>>
  /\ UNCHANGED <<file, batch_size, pc, lineno, batch, inserted, flushes, bad_lines,
                 calls, reachedDone, runs>>
  /\ UNCHANGED <<rbVars, confVars, det, cf>>

\* the rows of bag T that an open transaction other than b's has deleted
LockedByOthers(b, T) ==
  \E o \in Builders \ {b} : \E r \in DOMAIN T : r \in DOMAIN rbc.proc[o].del

\* line 124: connect_db(); the builder is entered
RaceCall(b) ==
  /\ rbc.proc[b].pc = "idle"
  /\ rbc.calls < MaxRaceCalls
  /\ rbc' = [rbc EXCEPT !.proc[b].pc = "delete", !.calls = rbc.calls + 1,
                        !.overlapped = rbc.overlapped
                                         \/ \E o \in Builders \ {b} :
                                              rbc.proc[o].pc # "idle"]
  /\ UNCHANGED <<rollup, faults>>
  /\ RaceUnchanged

\* line 127: the delete statement sees the committed rows of the upload; it
\* deletes them, or waits if another open transaction has deleted one of them
RaceDelete(b) ==
  /\ rbc.proc[b].pc = "delete"
  /\ LET T == RowsOfUpload(rollup, UploadA) IN
       rbc' = IF LockedByOthers(b, T)
              THEN [rbc EXCEPT !.proc[b].pc = "delete_wait", !.proc[b].seen = T]
              ELSE [rbc EXCEPT !.proc[b].pc = "insert", !.proc[b].del = T]
  /\ UNCHANGED <<rollup, faults>>
  /\ RaceUnchanged

\* line 127, after the wait: the rows seen that the other transaction did not
\* remove are deleted; rows committed since the statement began are not seen
RaceDeleteResume(b) ==
  /\ rbc.proc[b].pc = "delete_wait"
  /\ ~LockedByOthers(b, rbc.proc[b].seen)
  /\ rbc' = [rbc EXCEPT !.proc[b].pc = "insert", !.proc[b].del = rbc.proc[b].seen,
                        !.proc[b].seen = EmptyBag]
  /\ UNCHANGED <<rollup, faults>>
  /\ RaceUnchanged

\* lines 129-150: insert ... select ... group by over the committed events
RaceInsert(b) ==
  /\ rbc.proc[b].pc = "insert"
  /\ rbc' = [rbc EXCEPT !.proc[b].pc = "commit",
                        !.proc[b].ins = SetToBag(Aggregate(events, UploadA))]
  /\ UNCHANGED <<rollup, faults>>
  /\ RaceUnchanged

\* lines 151-152: conn.commit(); a waiting delete no longer finds the rows
\* this transaction deleted
RaceCommit(b) ==
  /\ rbc.proc[b].pc = "commit"
  /\ rollup' = (rollup (-) rbc.proc[b].del) (+) rbc.proc[b].ins
  /\ rbc' = [rbc EXCEPT
               !.proc = [o \in Builders |->
                           IF o = b THEN RbcIdle.proc[b]
                           ELSE [rbc.proc[o] EXCEPT
                                   !.seen = rbc.proc[o].seen (-) rbc.proc[b].del]],
               !.commits = rbc.commits + 1]
  /\ UNCHANGED faults
  /\ RaceUnchanged

\* a storage failure at any statement: the transaction is rolled back
RaceFault(b) ==
  /\ rbc.proc[b].pc \in {"delete", "delete_wait", "insert", "commit"}
  /\ faults < MaxFaults
  /\ faults' = faults + 1
  /\ rbc' = [rbc EXCEPT !.proc[b] = RbcIdle.proc[b]]
  /\ UNCHANGED rollup
  /\ RaceUnchanged

NextRace ==
  \/ \E b \in Builders : RaceCall(b)
  \/ \E b \in Builders : RaceDelete(b)
  \/ \E b \in Builders : RaceDeleteResume(b)
  \/ \E b \in Builders : RaceInsert(b)
  \/ \E b \in Builders : RaceCommit(b)
  \/ \E b \in Builders : RaceFault(b)

SpecRace == InitRace /\ [][NextRace]_vars

BuildersIdle == \A b \in Builders : rbc.proc[b].pc = "idle"

OneAggregation ==
  /\ RowsOfUpload(rollup, UploadA) = SetToBag(Aggregate(events, UploadA))
  /\ NoDuplicateTuples(RowsOfUpload(rollup, UploadA))
  /\ RollupSum(rollup, UploadA) = Cardinality(TimedEventsOf(events, UploadA))

\* C27: once two concurrent build_minute_rollup invocations for the upload
\* have both committed, whatever the interleaving of their statements, the
\* upload's rollup rows are exactly one aggregation of its events: the totals
\* sum to the number of timed events and no grouping tuple appears twice.
C27_ConcurrentRebuilds ==
  (BuildersIdle /\ rbc.commits >= 2) => OneAggregation

\* the same for invocations that did not overlap
C27_SerialRebuilds ==
  (BuildersIdle /\ rbc.commits >= 1 /\ ~rbc.overlapped) => OneAggregation

(***************************************************************************)
(* SpecMix: run_detections(upload_id) while build_minute_rollup of the     *)
(* upload runs.  The rollup was built when the upload held its first       *)
(* events; more events were ingested since, and the rebuild over all of    *)
(* them may commit before, between or after the detectors' queries.        *)
(***************************************************************************)
MaxMixAdded == 3   \* events ingested after the rollup was first built

\* one endpoint blocked 12 times in three categories on one host
MixBase == {R(0, "u1", "10.0.0.5", "h1", "Blocked", "Malware", 4),
            R(0, "u1", "10.0.0.5", "h1", "Blocked", "Ransomware", 4),
            R(0, "u1", "10.0.0.5", "h1", "Blocked", "Adware", 4)}

MixBaseEvents == InitEvents \o EventsOfRows(MixBase)

\* further Malware blocks of the same endpoint in the same minute
MixAdded(n) == [i \in 1..n |-> EventOfRow(R(0, "u1", "10.0.0.5", "h1", "Blocked",
                                            "Malware", 1))]

PreRollup  == SetToBag(Aggregate(MixBaseEvents, UploadA)) (+) InitRollup
PostRollup == SetToBag(Aggregate(events, UploadA)) (+) InitRollup

InitMix ==
  /\ \E n \in 1..MaxMixAdded : events = MixBaseEvents \o MixAdded(n)
  /\ rollup = PreRollup
  /\ features = InitFeatures
  /\ findings = <<>>
  /\ job = NoJob
  /\ file = <<>>
  /\ batch_size = 1
  /\ pc = "returned"
  /\ lineno = 1
  /\ batch = <<>>
  /\ inserted = 0
  /\ flushes = <<>>
  /\ bad_lines = 0
  /\ calls = <<>>
  /\ reachedDone = FALSE
  /\ runs = 0
  /\ faults = 0
  /\ rb = RbIdle
  /\ lastRb = NoRb
  /\ prevRb = NoRb
  /\ cIn = ConfIdle
  /\ cOut = NoConf
  /\ cPrev = NoPrev
  /\ det = DetIdle
  /\ cf = CfIdle
  /\ rbc = RbcIdle

NextMix ==
  \/ StartDetect
  \/ BurstQuery
  \/ BurstInsert
  \/ RepeatedQuery
  \/ RepeatedInsert
  \/ HostQuery
  \/ HostInsert
  \/ EndpointQuery
  \/ C2Query
  \/ PhishQuery
  \/ ExtraInsert
  \/ DetectReturn
  \/ DetectFault
  \/ CallRollupDirect
  \/ RollupDelete
  \/ RollupInsert
  \/ RollupCommit
  \/ RollupFault

SpecMix == InitMix /\ [][NextMix]_vars

\* the findings a run derives from one rollup table: a pattern and its evidence
DerivedFrom(table) ==
  UNION {{<<p, ev>> : ev \in QualifyingEvidenceIn(table, p)} : p \in Patterns}

FindingsDerived == {<<findings[i].pattern_name, findings[i].evidence>> :
                      i \in DOMAIN findings}

\* C30: when the upload's first run_detections has returned, its findings are
\* those derived from the rollup as it was before the rebuild, or those
\* derived from the rollup as the rebuild left it, never some of each.
C30_SameRollupContents ==
  FirstRunDone => \/ FindingsDerived = DerivedFrom(PreRollup)
                  \/ FindingsDerived = DerivedFrom(PostRollup)

\* a run during which no rebuild was committed derives all its findings from
\* the rollup it found
C30_QuietRunConsistent ==
  (FirstRunDone /\ ~lastRb.valid) => FindingsDerived = DerivedFrom(rollup)

====
